---------------------------- MODULE Spec2Model ----------------------------
(***************************************************************************)
(* Model of the thumbnail table (src/dtgtk/thumbtable.c) and of the        *)
(* images-to-act-on cache (src/common/act_on.c).                           *)
(*                                                                         *)
(* The table is a window of thumbnails over memory.collected_images.  The  *)
(* collection is a sequence of image ids, the rowid of an image being its  *)
(* 1-based index.  Every handler is a function from a world record (the    *)
(* dt_thumbtable_t fields and the globals the handlers write) to a world   *)
(* record; an action applies one handler and commits the result.           *)
(***************************************************************************)
EXTENDS Integers, Sequences, FiniteSets, TLC

VARIABLES
  \* dt_thumbtable_t
  mode, list, thumbs_area, thumb_size, thumbs_per_row, rows, view_width,
  view_height, center_offset, offset, offset_imgid, realign_top_try,
  code_scrolling, scrollbars, mouse_inside, last_x, last_y,
  \* darktable globals read or written by the table
  allocation, zoom, collection, selection, mouse_over_id, conf_pos0,
  vscrollbar_visible,
  \* act_on.c and the globals it reads
  act_on_cache_visible, act_on_cache_all, active_images, grouping,
  expanded_group_id,
  \* a handler has entered a loop that it does not leave
  hung

tablevars == <<mode, list, thumbs_area, thumb_size, thumbs_per_row, rows,
               view_width, view_height, center_offset, offset, offset_imgid,
               realign_top_try, code_scrolling, scrollbars, mouse_inside,
               last_x, last_y, zoom, mouse_over_id, conf_pos0,
               vscrollbar_visible>>
envvars == <<allocation, collection, selection>>
actoncore == <<act_on_cache_visible, act_on_cache_all, active_images,
               grouping, expanded_group_id>>
actonvars == actoncore
vars == <<tablevars, envvars, actonvars, hung>>

---------------------------------------------------------------------------
(* Bounds of the model *)

\* number of images known to the library (ids 1..NImg)
NImg == 5
\* largest number of thumbnails per row (lighttable zoom)
MaxZoom == 2
\* depth allowed to the mutual recursion _move / full_redraw / ensure_rowid
MaxDepth == 12
\* largest offset from which the pointer and the keys are followed
MaxOffset == 6

---------------------------------------------------------------------------
(* C arithmetic *)

Min(a, b) == IF a < b THEN a ELSE b
Max(a, b) == IF a > b THEN a ELSE b
Abs(a) == IF a < 0 THEN -a ELSE a

\* int division and remainder of C: truncation toward zero
CDiv(a, b) == IF (a >= 0) = (b > 0) THEN Abs(a) \div Abs(b) ELSE -(Abs(a) \div Abs(b))
CMod(a, b) == a - b * CDiv(a, b)

INT_MAX == 2147483647

Last(s) == s[Len(s)]
Range(s) == {s[i] : i \in 1..Len(s)}
Reverse(s) == [i \in 1..Len(s) |-> s[Len(s) + 1 - i]]

---------------------------------------------------------------------------
(* The collection: memory.collected_images, as seen by a handler running  *)
(* in world w                                                              *)

Images == 1..NImg

\* SELECT imgid FROM memory.collected_images WHERE rowid=%d
_thumb_get_imgid(w, rowid) ==
  IF rowid \in 1..Len(w.collection) THEN w.collection[rowid] ELSE -1

\* SELECT rowid FROM memory.collected_images WHERE imgid=%d
_thumb_get_rowid(w, imgid) ==
  IF \E i \in 1..Len(w.collection) : w.collection[i] = imgid
  THEN CHOOSE i \in 1..Len(w.collection) : w.collection[i] = imgid
  ELSE -1

\* SELECT COUNT(*) FROM memory.collected_images
collection_count(w) == Len(w.collection)

\* SELECT MAX(rowid) FROM memory.collected_images (NULL, read as 0, if empty)
collection_maxrowid(w) == Len(w.collection)

\* rows (rowid, imgid) with rowid >= lo, in rowid order, at most limit of them
\* (a negative LIMIT is no limit in sqlite)
QueryFrom(w, lo, limit) ==
  LET from == Max(1, lo)
      n == Max(0, Len(w.collection) - from + 1)
      k == IF limit < 0 THEN n ELSE Min(n, limit)
  IN [i \in 1..k |-> [rowid |-> from + i - 1, imgid |-> w.collection[from + i - 1]]]

\* QueryBefore with the row just before hi left out: what the window would
\* be if the rows above it were loaded with a gap; C2 fails with it
QueryBeforeGap(w, hi, limit) ==
  LET top == Min(hi - 2, Len(w.collection))
      n == Max(0, top)
      k == IF limit < 0 THEN n ELSE Min(n, limit)
  IN [i \in 1..k |-> [rowid |-> top - i + 1, imgid |-> w.collection[top - i + 1]]]

\* rows with rowid < hi, in descending rowid order, at most limit of them
QueryBefore(w, hi, limit) ==
  LET top == Min(hi - 1, Len(w.collection))
      n == Max(0, top)
      k == IF limit < 0 THEN n ELSE Min(n, limit)
  IN [i \in 1..k |-> [rowid |-> top - i + 1, imgid |-> w.collection[top - i + 1]]]

\* QueryAfter with rowid >= lo instead of rowid > lo: what the window would
\* be if the rows below it were loaded from its last row on; C1 fails with it
QueryAfterInclusive(w, lo, limit) == QueryFrom(w, lo, limit)

\* rows with rowid > lo, in rowid order, at most limit of them
QueryAfter(w, lo, limit) == QueryFrom(w, lo + 1, limit)

\* dt_selection_get_first_id: the first selected image, -1 if none
dt_selection_get_first_id(w) == IF w.selection = <<>> THEN -1 ELSE Head(w.selection)

---------------------------------------------------------------------------
(* Thumbnails *)

\* image->group_id: images 2, 3 and 4 form one group led by 2, every other
\* image is alone in its group
GroupLeader == 2
GroupMembers == {2, 3, 4} \cap Images
GroupOf(imgid) == IF imgid \in GroupMembers THEN GroupLeader ELSE imgid
IsGrouped(imgid) == imgid \in GroupMembers /\ Cardinality(GroupMembers) > 1

\* dt_thumbnail_new followed by the placement at (x,y)
NewThumb(w, imgid, rowid, x, y) ==
  [imgid |-> imgid, rowid |-> rowid, x |-> x, y |-> y,
   width |-> w.thumb_size, height |-> w.thumb_size,
   groupid |-> GroupOf(imgid), is_grouped |-> IsGrouped(imgid),
   mouse_over |-> FALSE, group_borders |-> {}, fresh |-> TRUE]

---------------------------------------------------------------------------
(* Geometry *)

\* _pos_compute_area: the rectangle used by all the loaded thumbs.  With an
\* empty list x and y stay INT_MAX and INT_MIN + thumb_size - INT_MAX wraps
\* around to thumb_size + 1 in 32 bits.
ThX(th) == th.x
ThY(th) == th.y
SeqMin(s, f(_)) ==
  LET R[i \in 1..Len(s)] == IF i = 1 THEN f(s[1]) ELSE Min(R[i - 1], f(s[i])) IN R[Len(s)]
SeqMax(s, f(_)) ==
  LET R[i \in 1..Len(s)] == IF i = 1 THEN f(s[1]) ELSE Max(R[i - 1], f(s[i])) IN R[Len(s)]

\* _pos_compute_area that leaves the area as it is; C19 fails with it
AreaKept(w) == w

_pos_compute_area(w) ==
  IF w.list = <<>>
  THEN [w EXCEPT !.thumbs_area = [x |-> INT_MAX, y |-> INT_MAX,
                                  width |-> w.thumb_size + 1,
                                  height |-> w.thumb_size + 1]]
  ELSE LET x1 == SeqMin(w.list, ThX)
           y1 == SeqMin(w.list, ThY)
           x2 == SeqMax(w.list, ThX)
           y2 == SeqMax(w.list, ThY)
       IN [w EXCEPT !.thumbs_area = [x |-> x1, y |-> y1,
                                     width |-> x2 + w.thumb_size - x1,
                                     height |-> y2 + w.thumb_size - y1]]

\* _pos_get_next: the position after (x,y), as <<x, y>>
_pos_get_next(w, x, y) ==
  IF w.mode = "FILEMANAGER"
  THEN IF x + w.thumb_size + w.thumb_size > w.view_width
       THEN <<w.center_offset, y + w.thumb_size>>
       ELSE <<x + w.thumb_size, y>>
  ELSE IF w.mode = "FILMSTRIP" THEN <<x + w.thumb_size, y>>
  ELSE <<x, y>>

\* _pos_get_previous: the position before (x,y), as <<x, y>>
_pos_get_previous(w, x, y) ==
  IF w.mode = "FILEMANAGER"
  THEN IF x - w.thumb_size < 0
       THEN <<(w.thumbs_per_row - 1) * w.thumb_size + w.center_offset, y - w.thumb_size>>
       ELSE <<x - w.thumb_size, y>>
  ELSE IF w.mode = "FILMSTRIP" THEN <<x - w.thumb_size, y>>
  ELSE <<x, y>>

\* the smallest viewport size (exclusive) at which sizes are computed
MinViewSize == 20

\* _compute_sizes that rounds the thumbs of the filmstrip up to an even
\* number; C28 fails with it
ComputeSizesEven(w, force) ==
  LET aw == w.allocation[1]
      ah == w.allocation[2]
      up == CDiv(aw + ah - 1, ah)
  IN [w |-> [w EXCEPT !.thumbs_per_row = IF w.mode = "FILMSTRIP" THEN 1 ELSE w.zoom,
                      !.view_width = aw,
                      !.view_height = ah,
                      !.thumb_size = ah,
                      !.rows = IF CMod(up, 2) # 0 THEN up + 1 ELSE up,
                      !.center_offset = 0],
      ret |-> TRUE]

\* _compute_sizes: [w, ret], ret = something has changed (or forced)
_compute_sizes(w, force) ==
  LET aw == w.allocation[1]
      ah == w.allocation[2]
  IN
  IF aw <= MinViewSize \/ ah <= MinViewSize
  THEN [w |-> [w EXCEPT !.view_width = aw, !.view_height = ah], ret |-> FALSE]
  ELSE IF w.mode = "FILEMANAGER"
  THEN LET npr == w.zoom IN
       IF force \/ aw # w.view_width \/ ah # w.view_height \/ npr # w.thumbs_per_row
       THEN LET ts == Min(CDiv(aw, npr), ah) IN
            [w |-> [w EXCEPT !.thumbs_per_row = npr,
                             !.view_width = aw,
                             !.view_height = ah,
                             !.thumb_size = ts,
                             !.rows = CDiv(ah, ts) + 1,
                             !.center_offset = CDiv(aw - npr * ts, 2)],
             ret |-> TRUE]
       ELSE [w |-> w, ret |-> FALSE]
  ELSE IF w.mode = "FILMSTRIP"
  THEN IF force \/ aw # w.view_width \/ ah # w.view_height
       THEN LET r == CDiv(aw, ah) IN
            [w |-> [w EXCEPT !.thumbs_per_row = 1,
                             !.view_width = aw,
                             !.view_height = ah,
                             !.thumb_size = ah,
                             !.rows = IF CMod(r, 2) # 0 THEN r + 2 ELSE r + 1,
                             !.center_offset = 0],
             ret |-> TRUE]
       ELSE [w |-> w, ret |-> FALSE]
  ELSE [w |-> w, ret |-> FALSE]

\* allocated width of the vertical scrollbar widget
ScrollbarWidth == 10

\* _thumbtable_update_scrollbars.  lbefore is a float: it is kept here
\* multiplied by thumb_size, so that the partial row stays an integer.  With
\* the area of an empty list (y = INT_MAX) lbefore is far below zero: nothing
\* is to be shown.  The visibility of the scrollbar follows the returned state.
_thumbtable_update_scrollbars(w) ==
  IF w.mode # "FILEMANAGER" THEN w
  ELSE IF ~w.scrollbars THEN w
  ELSE IF w.thumbs_area.y = INT_MAX
  THEN [w EXCEPT !.code_scrolling = FALSE, !.vscrollbar_visible = FALSE]
  ELSE
    LET nbid == collection_count(w)
        lb0 == CDiv(w.offset - 1, w.thumbs_per_row)
               + (IF CMod(w.offset - 1, w.thumbs_per_row) # 0 THEN 1 ELSE 0)
        \* lbefore * thumb_size
        lbefore_ts == lb0 * w.thumb_size
                      + (IF w.thumbs_area.y # 0 THEN -w.thumbs_area.y ELSE 0)
        lafter == CDiv(nbid - w.offset, w.thumbs_per_row)
                  + (IF CMod(nbid - w.offset, w.thumbs_per_row) # 0 THEN 1 ELSE 0)
        total_ts == lbefore_ts + lafter * w.thumb_size
        nw == w.view_width + ScrollbarWidth
    IN
    IF /\ w.vscrollbar_visible
       /\ total_ts <= (w.rows - 1) * w.thumb_size
       /\ total_ts >= 0
       /\ total_ts * nw >= w.view_height * w.thumbs_per_row * w.thumb_size
    THEN [w EXCEPT !.code_scrolling = TRUE, !.vscrollbar_visible = TRUE]
    ELSE [w EXCEPT !.code_scrolling = FALSE,
                   !.vscrollbar_visible = (total_ts > (w.rows - 1) * w.thumb_size)]

---------------------------------------------------------------------------
(* Loading and unloading thumbnails at the edges *)

\* a thumbnail that _thumbs_remove_unneeded drops: completely hidden
Unneeded(w, th) ==
  \/ th.y + w.thumb_size <= 0
  \/ th.y > w.view_height
  \/ /\ w.mode = "FILMSTRIP"
     /\ (th.x + w.thumb_size <= 0 \/ th.x > w.view_width)

\* _thumbs_remove_unneeded: [w, changed]
_thumbs_remove_unneeded(w) ==
  LET Keep(th) == ~Unneeded(w, th)
      kept == SelectSeq(w.list, Keep)
  IN [w |-> [w EXCEPT !.list = kept], changed |-> Len(w.list) - Len(kept)]

\* number of rows needed to fill space pixels
NbToLoad(w, space) ==
  CDiv(space, w.thumb_size) + (IF CMod(space, w.thumb_size) # 0 THEN 1 ELSE 0)

\* the loop that prepends the rows q, starting before (x0,y0): [list, changed]
LoadAtBeginning(w, q, x0, y0) ==
  LET R[i \in 0..Len(q)] ==
        IF i = 0
        THEN [l |-> w.list, pos |-> _pos_get_previous(w, x0, y0), changed |-> 0]
        ELSE LET r == R[i - 1] IN
             [l |-> IF r.pos[2] < w.view_height
                    THEN <<NewThumb(w, q[i].imgid, q[i].rowid, r.pos[1], r.pos[2])>> \o r.l
                    ELSE r.l,
              pos |-> _pos_get_previous(w, r.pos[1], r.pos[2]),
              changed |-> IF r.pos[2] < w.view_height THEN r.changed + 1 ELSE r.changed]
  IN R[Len(q)]

\* the loop that appends the rows q, starting after (x0,y0): [list, changed]
LoadAtEnd(w, l0, q, x0, y0) ==
  LET R[i \in 0..Len(q)] ==
        IF i = 0
        THEN [l |-> l0, pos |-> _pos_get_next(w, x0, y0), changed |-> 0]
        ELSE LET r == R[i - 1] IN
             [l |-> IF r.pos[2] + w.thumb_size >= 0
                    THEN Append(r.l, NewThumb(w, q[i].imgid, q[i].rowid, r.pos[1], r.pos[2]))
                    ELSE r.l,
              pos |-> _pos_get_next(w, r.pos[1], r.pos[2]),
              changed |-> IF r.pos[2] + w.thumb_size >= 0 THEN r.changed + 1 ELSE r.changed]
  IN R[Len(q)]

\* the second half of _thumbs_load_needed, with atBeginning what the first
\* half gave: the rows missing after the last thumb are appended
LoadNeededAtEnd(w, atBeginning) ==
  LET last == Last(atBeginning.l)
      atEnd ==
        IF \/ /\ w.mode = "FILEMANAGER"
              /\ last.y + w.thumb_size < w.view_height
              /\ last.x >= w.thumb_size * (w.thumbs_per_row - 1)
           \/ /\ w.mode = "FILMSTRIP"
              /\ last.x + w.thumb_size < w.view_width
        THEN LET space == IF w.mode = "FILMSTRIP"
                          THEN w.view_width - (last.x + w.thumb_size)
                          ELSE w.view_height - (last.y + w.thumb_size)
                 nb_to_load == NbToLoad(w, space)
                 q == QueryAfter(w, last.rowid, nb_to_load * w.thumbs_per_row)
             IN LoadAtEnd(w, atBeginning.l, q, last.x, last.y)
        ELSE [l |-> atBeginning.l, changed |-> 0]
  IN [w |-> [w EXCEPT !.list = atEnd.l],
      changed |-> atBeginning.changed + atEnd.changed]

\* _thumbs_load_needed: [w, changed]
_thumbs_load_needed(w) ==
  IF w.list = <<>> THEN [w |-> w, changed |-> 0]
  ELSE
    LET first == w.list[1] IN
    LoadNeededAtEnd(w,
      IF /\ first.rowid > 1
         /\ \/ (w.mode = "FILEMANAGER" /\ first.y > 0)
            \/ (w.mode = "FILMSTRIP" /\ first.x > 0)
      THEN LET space == IF w.mode = "FILMSTRIP" THEN first.x ELSE first.y
               nb_to_load == NbToLoad(w, space)
               q == QueryBefore(w, first.rowid, nb_to_load * w.thumbs_per_row)
           IN LoadAtBeginning(w, q, first.x, first.y)
      ELSE [l |-> w.list, changed |-> 0])

---------------------------------------------------------------------------
(* Hover annotation *)

\* _thumbtable_get_thumb: the position in the list of the thumb of imgid, 0 if none
_thumbtable_get_thumb(w, imgid) ==
  IF imgid <= 0 THEN 0
  ELSE IF \E i \in 1..Len(w.list) : w.list[i].imgid = imgid
  THEN CHOOSE i \in 1..Len(w.list) :
         w.list[i].imgid = imgid /\ \A j \in 1..(i - 1) : w.list[j].imgid # imgid
  ELSE 0

\* _thumb_get_at_pos: the position in the list of the thumb at (x,y), 0 if none
_thumb_get_at_pos(w, x, y) ==
  LET Hit(i) == LET th == w.list[i] IN
                  th.x <= x /\ th.x + th.width > x /\ th.y <= y /\ th.y + th.height > y
  IN IF \E i \in 1..Len(w.list) : Hit(i)
     THEN CHOOSE i \in 1..Len(w.list) : Hit(i) /\ \A j \in 1..(i - 1) : ~Hit(j)
     ELSE 0

\* _thumb_get_under_mouse; last_x, last_y are kept relative to the widget
_thumb_get_under_mouse(w) ==
  IF ~w.mouse_inside THEN 0 ELSE _thumb_get_at_pos(w, w.last_x, w.last_y)

\* GroupBorders that puts the left border (the first one, in FILMSTRIP)
\* whatever the thumb before is: what the crawl would do if it did not look
\* at the left neighbour; C10 fails with it
GroupBordersLeftAlways(w, l, p, groupid) ==
  LET th == l[p]
      pos == p - 1
      n == Len(l)
      tpr == w.thumbs_per_row
      right == ~(/\ pos < n - 1
                 /\ 2 * th.x + 3 * th.width < 2 * w.thumbs_area.width
                 /\ l[p + 1].groupid = groupid)
      bottom == ~(pos + tpr < n /\ pos + tpr >= 0 /\ l[p + tpr].groupid = groupid)
  IN IF w.mode # "FILMSTRIP"
     THEN {"LEFT"} \cup (IF right THEN {"RIGHT"} ELSE {})
     ELSE {"TOP", "BOTTOM", "LEFT"} \cup (IF bottom THEN {"RIGHT"} ELSE {})

\* GroupBorders that puts the four borders on every thumb of the group in
\* the filmstrip; C29 fails with it
GroupBordersAllSides(w, l, p, groupid) ==
  IF w.mode = "FILMSTRIP" THEN {"LEFT", "RIGHT", "TOP", "BOTTOM"}
  ELSE {"LEFT", "RIGHT"}

\* the borders that the second crawl of _dt_mouse_over_image_callback gives
\* to the thumb at list position p (0-based pos = p - 1) of group groupid
GroupBorders(w, l, p, groupid) ==
  LET th == l[p]
      pos == p - 1
      n == Len(l)
      tpr == w.thumbs_per_row
      fm == IF w.mode # "FILMSTRIP"
            THEN LET left == ~(/\ pos # 0
                               /\ th.x # w.thumbs_area.x
                               /\ l[p - 1].groupid = groupid)
                     \* (th->x + th->width * 1.5) < thumbs_area.width
                     right == ~(/\ pos < n - 1
                                /\ 2 * th.x + 3 * th.width < 2 * w.thumbs_area.width
                                /\ l[p + 1].groupid = groupid)
                 IN (IF left THEN {"LEFT"} ELSE {}) \cup (IF right THEN {"RIGHT"} ELSE {})
            ELSE {"TOP", "BOTTOM"}
      top == ~(pos - tpr >= 0 /\ pos - tpr < n /\ l[p - tpr].groupid = groupid)
      bottom == ~(pos + tpr < n /\ pos + tpr >= 0 /\ l[p + tpr].groupid = groupid)
  IN fm \cup (IF top THEN {IF w.mode = "FILMSTRIP" THEN "LEFT" ELSE "TOP"} ELSE {})
        \cup (IF bottom THEN {IF w.mode = "FILMSTRIP" THEN "RIGHT" ELSE "BOTTOM"} ELSE {})

\* _dt_mouse_over_image_callback that leaves the borders of the last hover
\* where they are; C30 fails with it
MouseOverKeepsBorders(w) ==
  LET hits == {i \in 1..Len(w.list) :
                 w.list[i].imgid = w.mouse_over_id /\ w.list[i].is_grouped}
      groupid == IF hits = {} THEN -1
                 ELSE w.list[CHOOSE i \in hits : \A j \in hits : j <= i].groupid
  IN [w EXCEPT !.list =
        [i \in 1..Len(w.list) |->
           [w.list[i] EXCEPT
              !.mouse_over = (w.list[i].imgid = w.mouse_over_id),
              !.group_borders =
                 IF groupid > 0 /\ w.list[i].groupid = groupid
                 THEN @ \cup GroupBorders(w, w.list, i, groupid)
                 ELSE @]]]

\* _dt_mouse_over_image_callback
_dt_mouse_over_image_callback(w) ==
  LET imgid == w.mouse_over_id
      hits == {i \in 1..Len(w.list) : w.list[i].imgid = imgid /\ w.list[i].is_grouped}
      \* the last thumb of the crawl that matches decides the group
      groupid == IF hits = {} THEN -1
                 ELSE w.list[CHOOSE i \in hits : \A j \in hits : j <= i].groupid
      l1 == [i \in 1..Len(w.list) |->
               [w.list[i] EXCEPT !.mouse_over = (w.list[i].imgid = imgid),
                                 !.group_borders = {}]]
      l2 == IF groupid > 0
            THEN [i \in 1..Len(l1) |->
                    IF l1[i].groupid = groupid
                    THEN [l1[i] EXCEPT !.group_borders = GroupBorders(w, l1, i, groupid)]
                    ELSE l1[i]]
            ELSE l1
  IN [w EXCEPT !.list = l2]

\* dt_control_set_mouse_over_id: a change of the id raises
\* DT_SIGNAL_MOUSE_OVER_IMAGE_CHANGE, which the table handles at once
dt_control_set_mouse_over_id(w, value) ==
  IF w.mouse_over_id # value
  THEN _dt_mouse_over_image_callback([w EXCEPT !.mouse_over_id = value])
  ELSE w

---------------------------------------------------------------------------
(* Reconciliation: full redraw and incremental move *)

Diverge(w) == [w EXCEPT !.diverged = TRUE]

\* _list_compare_by_imgid that never finds the image: what the redraw would
\* do if it looked up no thumb of the old list; C3 fails with it
NeverSameImage(th, imgid) == 1

\* _list_compare_by_imgid: 0 when the thumb matches imgid
_list_compare_by_imgid(th, imgid) ==
  IF th.imgid < 0 \/ imgid < 0 THEN 1
  ELSE IF th.imgid # imgid THEN 1 ELSE 0

\* g_list_find_custom(list, imgid, _list_compare_by_imgid): position or 0
FindByImgid(l, imgid) ==
  IF \E i \in 1..Len(l) : _list_compare_by_imgid(l[i], imgid) = 0
  THEN CHOOSE i \in 1..Len(l) :
         /\ _list_compare_by_imgid(l[i], imgid) = 0
         /\ \A j \in 1..(i - 1) : _list_compare_by_imgid(l[j], imgid) # 0
  ELSE 0

RemoveAt(l, i) == [j \in 1..(Len(l) - 1) |-> IF j < i THEN l[j] ELSE l[j + 1]]

\* the loop of dt_thumbtable_full_redraw over the rows q of the query: thumbs
\* already in the list are moved to the new list, the others are created
RedrawLoop(w, q, posx, posy) ==
  LET R[i \in 0..Len(q)] ==
        IF i = 0
        THEN [old |-> w.list, new |-> <<>>, pos |-> <<posx, posy>>,
              offset_imgid |-> w.offset_imgid]
        ELSE LET r == R[i - 1]
                 nrow == q[i].rowid
                 nid == q[i].imgid
                 tl == FindByImgid(r.old, nid)
                 thumb == IF tl # 0
                          THEN [r.old[tl] EXCEPT !.rowid = nrow,
                                                 !.x = r.pos[1], !.y = r.pos[2],
                                                 !.width = w.thumb_size,
                                                 !.height = w.thumb_size]
                          ELSE NewThumb(w, nid, nrow, r.pos[1], r.pos[2])
             IN [old |-> IF tl # 0 THEN RemoveAt(r.old, tl) ELSE r.old,
                 new |-> Append(r.new, thumb),
                 pos |-> _pos_get_next(w, r.pos[1], r.pos[2]),
                 offset_imgid |-> IF nrow = w.offset THEN nid ELSE r.offset_imgid]
  IN R[Len(q)]

\* table->list while the loop of dt_thumbtable_full_redraw runs, after the
\* rows of the images ids[1..k] were handled: every thumb that was found was
\* taken out of it (g_list_remove) and put in newlist
ListDuringRedraw(l, ids, k) ==
  LET R[i \in 0..k] ==
        IF i = 0 THEN l
        ELSE LET tl == FindByImgid(R[i - 1], ids[i])
             IN IF tl # 0 THEN RemoveAt(R[i - 1], tl) ELSE R[i - 1]
  IN R[k]

\* table->list while the first loop of _move runs, after k thumbs were moved
\* by (posx,posy): the thumbs are moved in place, one after the other
ListDuringMove(l, posx, posy, k) ==
  [i \in 1..Len(l) |-> IF i <= k THEN [l[i] EXCEPT !.x = @ + posx, !.y = @ + posy]
                       ELSE l[i]]

RECURSIVE _move(_, _, _, _, _)
RECURSIVE dt_thumbtable_full_redraw(_, _, _)
RECURSIVE _filemanager_ensure_rowid_visibility(_, _, _)

\* dt_thumbtable_ensure_imgid_visibility: [w, ret]
dt_thumbtable_ensure_imgid_visibility(w, imgid, d) ==
  IF imgid < 1 THEN [w |-> w, ret |-> FALSE]
  ELSE IF w.mode = "FILEMANAGER"
  THEN _filemanager_ensure_rowid_visibility(w, _thumb_get_rowid(w, imgid), d)
  ELSE [w |-> w, ret |-> FALSE]

\* MoveLoaded that leaves the offset where it was; C36 fails with it
MoveLoadedOffsetKept(w, posx, posy, ld) ==
  LET rm == _thumbs_remove_unneeded(ld.w)
      w2 == IF ld.changed + rm.changed > 0 THEN _pos_compute_area(rm.w) ELSE rm.w
  IN _thumbtable_update_scrollbars([w2 EXCEPT !.conf_pos0 = w.offset])

\* the end of _move, once the thumbs were moved by (posx,posy) and ld is what
\* _thumbs_load_needed gave: the thumbs out of sight are unloaded, the area
\* and the offset are updated (w is the table before the move)
MoveLoaded(w, posx, posy, ld) ==
  LET old_areay == w.thumbs_area.y
      rm == _thumbs_remove_unneeded(ld.w)
      w2 == IF ld.changed + rm.changed > 0 THEN _pos_compute_area(rm.w) ELSE rm.w
      noff == IF w.mode = "FILEMANAGER"
              THEN Max(1, w.offset - CDiv(posy + old_areay, w.thumb_size) * w.thumbs_per_row)
              ELSE IF w.mode = "FILMSTRIP"
              THEN Max(1, w.offset - CDiv(posx, w.thumb_size))
              ELSE w.offset
      w3 == [w2 EXCEPT !.offset = noff,
                       !.offset_imgid = IF w.mode \in {"FILEMANAGER", "FILMSTRIP"}
                                        THEN _thumb_get_imgid(w2, noff) ELSE @,
                       !.conf_pos0 = noff]
  IN _thumbtable_update_scrollbars(w3)

\* MoveThumbs that moves nothing; C26 fails with it
MoveThumbsNowhere(w, posx, posy) == w

\* the part of _move after the bounds check: the thumbs are moved by
\* (posx,posy), the edges are loaded and unloaded, the offset is updated
MoveThumbs(w, posx, posy) ==
  MoveLoaded(w, posx, posy,
             _thumbs_load_needed(
               [w EXCEPT !.list = ListDuringMove(w.list, posx, posy, Len(w.list)),
                         !.thumbs_area.x = @ + posx,
                         !.thumbs_area.y = @ + posy]))

\* _move without the check of the bounds: every move is done; C15 fails
\* with it
MoveUnclamped(w, x, y, clamp, d) ==
  IF w.list = <<>> \/ (x = 0 /\ y = 0) THEN [w |-> w, ret |-> FALSE]
  ELSE [w |-> MoveThumbs(w, x, y), ret |-> TRUE]

\* MoveClamp that refuses every move at the first row and counts nothing;
\* C24 fails with it
MoveClampUncounted(w, x, y, clamp) ==
  IF /\ clamp /\ w.mode = "FILEMANAGER" /\ y > 0
     /\ w.list[1].rowid = 1 /\ w.list[1].y >= 0
  THEN [act |-> "stop", w |-> w, posx |-> 0, posy |-> 0]
  ELSE [act |-> "move", w |-> [w EXCEPT !.realign_top_try = 0],
        posx |-> IF clamp /\ w.mode = "FILEMANAGER" THEN 0 ELSE x,
        posy |-> IF clamp /\ w.mode = "FILMSTRIP" THEN 0 ELSE y]

\* the bounds check of _move: what it decides (act: "stop" returns FALSE,
\* "redraw" realigns the top row by a full redraw, "move" goes on), the table
\* with realign_top_try updated, and the move (posx,posy) that is left
MoveClamp(w, x, y, clamp) ==
  LET first == w.list[1]
      last == Last(w.list)
      w0 == [w EXCEPT !.realign_top_try = 0]
      Stop(v) == [act |-> "stop", w |-> v, posx |-> 0, posy |-> 0]
      Go(v, px, py) == [act |-> "move", w |-> v, posx |-> px, posy |-> py]
  IN
  IF clamp /\ w.mode = "FILEMANAGER"
  THEN
    IF y = 0 THEN Stop(w)
    ELSE IF first.rowid = 1 /\ y > 0 /\ first.y >= 0
    THEN \* we stop when first rowid image is fully shown
         IF first.x # 0
         THEN IF w.realign_top_try + 1 > 2
              THEN [act |-> "redraw", w |-> w0, posx |-> 0, posy |-> 0]
              ELSE Stop([w EXCEPT !.realign_top_try = @ + 1])
         ELSE Stop(w)
    ELSE
      IF w.thumbs_per_row = 1 /\ y < 0 /\ Len(w.list) = 1
      THEN IF collection_count(w) <= last.rowid THEN Stop(w0) ELSE Go(w0, 0, y)
      ELSE IF last.y + w.thumb_size < w.view_height /\ y < 0 /\ w.thumbs_area.y = 0
           THEN Stop(w0)
           ELSE Go(w0, 0, y)
  ELSE IF clamp /\ w.mode = "FILMSTRIP"
  THEN
    IF x = 0 THEN Stop(w)
    ELSE IF /\ first.rowid = 1
            /\ x > 0
            /\ first.x >= CDiv(w.view_width, 2) - w.thumb_size
    THEN Stop(w)
    ELSE IF last.x < CDiv(w.view_width, 2) /\ x < 0
    THEN Stop(w)
    ELSE Go(w, x, 0)
  ELSE IF y = 0 /\ x = 0 THEN Stop(w)
  ELSE Go(w, x, y)

\* _move: [w, ret]
_move(w, x, y, clamp, d) ==
  IF d = 0 THEN [w |-> Diverge(w), ret |-> FALSE]
  ELSE IF w.list = <<>> THEN [w |-> w, ret |-> FALSE]
  ELSE
    LET c == MoveClamp(w, x, y, clamp) IN
    IF c.act = "redraw"
    THEN [w |-> dt_thumbtable_full_redraw(c.w, TRUE, d - 1), ret |-> TRUE]
    ELSE IF c.act = "move"
    THEN [w |-> MoveThumbs(c.w, c.posx, c.posy), ret |-> TRUE]
    ELSE [w |-> c.w, ret |-> FALSE]

\* the end of _filemanager_ensure_rowid_visibility, with m what _move gave:
\* the row is looked for again if the table moved
EnsureMoved(m, rowid, d) ==
  IF m.ret
  THEN _filemanager_ensure_rowid_visibility(m.w, rowid, d - 1)
  ELSE [w |-> m.w, ret |-> FALSE]

\* _filemanager_ensure_rowid_visibility: [w, ret]
_filemanager_ensure_rowid_visibility(w, rowid0, d) ==
  IF d = 0 THEN [w |-> Diverge(w), ret |-> FALSE]
  ELSE
    LET rowid == IF rowid0 < 1 THEN 1 ELSE rowid0 IN
    IF w.list = <<>> THEN [w |-> w, ret |-> FALSE]
    ELSE
      LET first == w.list[1]
          pos == Min(Len(w.list) - 1, w.thumbs_per_row * (w.rows - 1) - 1)
          last == w.list[pos + 1]
          \* the rows to move by, up (first->rowid > rowid) or down
          nrows == IF first.rowid > rowid
                   THEN Max(1, CDiv(first.rowid - rowid, w.thumbs_per_row))
                   ELSE -Max(1, CDiv(rowid - last.rowid, w.thumbs_per_row))
      IN
      IF first.rowid > rowid \/ last.rowid < rowid
      THEN EnsureMoved(_move(w, 0, nrows * w.thumb_size, TRUE, d - 1), rowid, d)
      ELSE [w |-> w, ret |-> TRUE]

\* _filemanager_check_rowid_visibility that takes every row after the first
\* thumb as shown; C27 fails with it
CheckFromFirstRow(w, rowid) ==
  rowid >= 1 /\ w.list # <<>> /\ w.list[1].rowid <= rowid

\* _filemanager_check_rowid_visibility
_filemanager_check_rowid_visibility(w, rowid) ==
  IF rowid < 1 THEN FALSE
  ELSE IF w.list = <<>> THEN FALSE
  ELSE LET first == w.list[1]
           pos == Min(Len(w.list) - 1, w.thumbs_per_row * (w.rows - 1) - 1)
           last == w.list[pos + 1]
       IN first.rowid <= rowid /\ last.rowid >= rowid

\* dt_thumbtable_check_imgid_visibility
dt_thumbtable_check_imgid_visibility(w, imgid) ==
  IF imgid < 1 THEN FALSE
  ELSE IF w.mode = "FILEMANAGER"
  THEN _filemanager_check_rowid_visibility(w, _thumb_get_rowid(w, imgid))
  ELSE FALSE

\* the end of dt_thumbtable_full_redraw, with the new list in place (w3): in
\* the file manager the first selected image is brought into view
RedrawSelected(w3, d) ==
  LET lastid == dt_selection_get_first_id(w3)
  IN IF lastid > -1 /\ w3.mode = "FILEMANAGER"
     THEN dt_thumbtable_ensure_imgid_visibility(w3, lastid, d - 1).w
     ELSE w3

\* dt_thumbtable_full_redraw after its loop over the rows q, which gave loop:
\* the new list replaces the old one and the area is computed again
RedrawLooped(w2, q, loop, d) ==
  RedrawSelected(_pos_compute_area(
                   [w2 EXCEPT !.list = loop.new,
                              !.offset_imgid = loop.offset_imgid,
                              !.query = [i \in 1..Len(q) |-> q[i].imgid]]), d)

\* the rows that dt_thumbtable_full_redraw asks for, from the row start.offset
RedrawQuery(w2, start) ==
  QueryFrom(w2, start.offset, w2.rows * w2.thumbs_per_row - start.empty_start)

\* the reload of dt_thumbtable_full_redraw, with the sizes computed and the
\* scrollbars updated in w1
RedrawThumbs(w1, d) ==
  LET \* the first row to load, the empty places before it, the first x
      start ==
        IF w1.mode = "FILEMANAGER"
        THEN LET offset_row == CDiv(w1.offset - 1, w1.thumbs_per_row)
             IN [offset |-> offset_row * w1.thumbs_per_row + 1,
                 table_offset |-> offset_row * w1.thumbs_per_row + 1,
                 empty_start |-> 0,
                 posx |-> w1.center_offset]
        ELSE IF w1.mode = "FILMSTRIP"
        THEN LET half == CDiv(w1.rows, 2)
                 empty_start == -Min(0, w1.offset - half - 1)
             IN [offset |-> Max(1, w1.offset - half),
                 table_offset |-> w1.offset,
                 empty_start |-> empty_start,
                 posx |-> CDiv(w1.view_width - w1.rows * w1.thumb_size, 2)
                          + empty_start * w1.thumb_size]
        ELSE [offset |-> w1.offset, table_offset |-> w1.offset,
              empty_start |-> 0, posx |-> 0]
      w2 == [w1 EXCEPT !.offset = start.table_offset]
  IN RedrawLooped(w2, RedrawQuery(w2, start),
                  RedrawLoop(w2, RedrawQuery(w2, start), start.posx, 0), d)

\* dt_thumbtable_full_redraw after _compute_sizes, which gave cs: nothing is
\* done if it returned FALSE
RedrawSized(cs, d) ==
  IF ~cs.ret THEN cs.w
  ELSE RedrawThumbs(_thumbtable_update_scrollbars(cs.w), d)

\* dt_thumbtable_full_redraw
dt_thumbtable_full_redraw(w, force, d) ==
  IF d = 0 THEN Diverge(w)
  ELSE RedrawSized(_compute_sizes(w, force), d)

---------------------------------------------------------------------------
(* Scrolling, keys and offsets *)

\* dt_thumbtable_set_offset that takes any row; C34 fails with it
SetOffsetAnyRow(w, noffset, redraw) ==
  IF noffset = w.offset THEN [w |-> w, ret |-> FALSE]
  ELSE LET w1 == [w EXCEPT !.offset = noffset, !.conf_pos0 = noffset]
       IN [w |-> IF redraw THEN dt_thumbtable_full_redraw(w1, TRUE, MaxDepth) ELSE w1,
           ret |-> TRUE]

\* dt_thumbtable_set_offset: [w, ret]
dt_thumbtable_set_offset(w, noffset, redraw) ==
  IF noffset < 1 \/ noffset = w.offset THEN [w |-> w, ret |-> FALSE]
  ELSE LET w1 == [w EXCEPT !.offset = noffset, !.conf_pos0 = noffset]
       IN [w |-> IF redraw THEN dt_thumbtable_full_redraw(w1, TRUE, MaxDepth) ELSE w1,
           ret |-> TRUE]

\* dt_thumbtable_set_offset_image: [w, ret]
dt_thumbtable_set_offset_image(w, imgid, redraw) ==
  dt_thumbtable_set_offset([w EXCEPT !.offset_imgid = imgid],
                           _thumb_get_rowid(w, imgid), redraw)

\* the end of _event_scroll, with m what _move gave: the thumb under the
\* pointer takes the hover
ScrollHover(m) ==
  LET th == _thumb_get_under_mouse(m.w)
  IN [w |-> IF th # 0 THEN dt_control_set_mouse_over_id(m.w, m.w.list[th].imgid)
            ELSE m.w,
      ret |-> m.ret]

\* _event_scroll without the control key: delta < 0 scrolls to the top
_event_scroll(w, delta) ==
  LET x == IF w.mode # "FILMSTRIP" THEN 0
           ELSE IF delta < 0 THEN w.thumb_size ELSE -w.thumb_size
      y == IF w.mode # "FILEMANAGER" THEN 0
           ELSE IF delta < 0
           THEN (IF w.thumbs_area.y = 0 THEN w.thumb_size ELSE -w.thumbs_area.y)
           ELSE -w.thumb_size - w.thumbs_area.y
  IN IF w.mode \in {"FILEMANAGER", "FILMSTRIP"}
     THEN ScrollHover(_move(w, x, y, TRUE, MaxDepth))
     ELSE [w |-> w, ret |-> FALSE]

\* dt_thumbtable_scrollbar_changed(table, x, y) with y = line + num / den,
\* 0 <= num < den: line is floorf(y), the rest moves the thumbs by the pixels
\* that the conversion of the float to int leaves
dt_thumbtable_scrollbar_changed(w, line, num, den) ==
  IF w.list = <<>> \/ w.code_scrolling \/ ~w.scrollbars THEN w
  ELSE IF w.mode = "FILEMANAGER"
  THEN LET first_offset == CMod(w.offset - 1, w.thumbs_per_row)
           new_offset == IF first_offset = 0 THEN 1 + line * w.thumbs_per_row
                         ELSE IF line = 0 THEN 1
                         ELSE first_offset + (line - 1) * w.thumbs_per_row
           w1 == dt_thumbtable_full_redraw([w EXCEPT !.offset = new_offset], TRUE, MaxDepth)
           thumbs_area_offset_y == CDiv(num * w1.thumb_size, den)
       IN _move(w1, 0, -thumbs_area_offset_y, FALSE, MaxDepth).w
  ELSE w

\* the while loops of the page keys: n is moved by step until it passes the
\* bound; a step that is not positive never gets there
PageUpLoop(n, step) ==
  IF n >= 1 THEN [n |-> n, ends |-> TRUE]
  ELSE IF step <= 0 THEN [n |-> n, ends |-> FALSE]
  ELSE [n |-> n + step * ((1 - n + step - 1) \div step), ends |-> TRUE]
PageDownLoop(n, step, maxrowid) ==
  IF n <= maxrowid THEN [n |-> n, ends |-> TRUE]
  ELSE IF step <= 0 THEN [n |-> n, ends |-> FALSE]
  ELSE [n |-> n - step * ((n - maxrowid + step - 1) \div step), ends |-> TRUE]

Moves == {"LEFT", "RIGHT", "UP", "DOWN", "PAGEUP", "PAGEDOWN", "START", "END"}

\* the row of a key move that starts from the row of the offset image in
\* every case, the first move included; C18 fails with it
KeyMoveFromOffsetAlways(w, move) ==
  LET baserowid == _thumb_get_rowid(w, IF w.mouse_over_id <= 0 THEN w.offset_imgid
                                       ELSE w.mouse_over_id)
  IN [newrowid |-> IF move \in {"LEFT", "UP"} THEN Max(baserowid - 1, 1)
                   ELSE Min(baserowid + 1, collection_maxrowid(w)),
      ends |-> TRUE]

\* the row that _filemanager_key_move goes to: [newrowid, ends]
KeyMoveTarget(w, move) ==
  LET baseid0 == w.mouse_over_id
      first_move == baseid0 <= 0
      baseid == IF first_move THEN w.offset_imgid ELSE baseid0
  IN
  IF ~first_move \/ move \in {"PAGEUP", "PAGEDOWN", "START", "END"}
  THEN LET baserowid == _thumb_get_rowid(w, baseid)
           maxrowid == collection_maxrowid(w)
           tpr == w.thumbs_per_row
       IN CASE move = "LEFT" -> [newrowid |-> Max(baserowid - 1, 1), ends |-> TRUE]
            [] move = "RIGHT" -> [newrowid |-> Min(baserowid + 1, maxrowid), ends |-> TRUE]
            [] move = "UP" -> [newrowid |-> Max(baserowid - tpr, 1), ends |-> TRUE]
            [] move = "DOWN" -> [newrowid |-> Min(baserowid + tpr, maxrowid), ends |-> TRUE]
            [] move = "PAGEUP" ->
                 LET lp == PageUpLoop(baserowid - tpr * (w.rows - 1), tpr)
                 IN [newrowid |-> IF lp.n = baserowid THEN 1 ELSE lp.n, ends |-> lp.ends]
            [] move = "PAGEDOWN" ->
                 LET lp == PageDownLoop(baserowid + tpr * (w.rows - 1), tpr, maxrowid)
                 IN [newrowid |-> IF lp.n = baserowid THEN maxrowid ELSE lp.n,
                     ends |-> lp.ends]
            [] move = "START" -> [newrowid |-> 1, ends |-> TRUE]
            [] move = "END" -> [newrowid |-> maxrowid, ends |-> TRUE]
  ELSE [newrowid |-> w.offset, ends |-> TRUE]

\* _filemanager_key_move with select = FALSE: [w, ret]
_filemanager_key_move(w, move) ==
  LET t == KeyMoveTarget(w, move) IN
  IF ~t.ends THEN [w |-> Diverge(w), ret |-> FALSE]
  ELSE LET imgid == _thumb_get_imgid(w, t.newrowid)
           w1 == dt_control_set_mouse_over_id(w, imgid)
           w2 == IF t.newrowid # -1
                 THEN _filemanager_ensure_rowid_visibility(w1, t.newrowid, MaxDepth).w
                 ELSE w1
       IN [w |-> w2, ret |-> TRUE]

\* _filemanager_key_move up to the call of dt_control_set_mouse_over_id: the
\* table as the hover callback leaves it, before the view is moved to the row
KeyMoveHoverSet(w, move) ==
  LET t == KeyMoveTarget(w, move)
  IN dt_control_set_mouse_over_id(w, _thumb_get_imgid(w, t.newrowid))

\* dt_thumbtable_key_move: [w, ret]
dt_thumbtable_key_move(w, move) ==
  IF w.mode = "FILEMANAGER" THEN _filemanager_key_move(w, move)
  ELSE [w |-> w, ret |-> FALSE]

\* _filemanager_zoom (no anchor image is set in darktable.gui)
_filemanager_zoom(w, oldzoom, newzoom) ==
  IF w.list = <<>> THEN w
  ELSE
    LET under == IF w.mouse_inside THEN _thumb_get_at_pos(w, w.last_x, w.last_y) ELSE 0
        byid == _thumbtable_get_thumb(w, w.mouse_over_id)
        cx == CDiv(w.view_width, 2)
        cy == CDiv(w.view_height, 2)
        center == _thumb_get_at_pos(w, cx, cy)
        \* the thumb to zoom around and the point (x,y) taken for it
        sel == IF under # 0 THEN [th |-> under, x |-> w.last_x, y |-> w.last_y]
               ELSE IF byid # 0
               THEN [th |-> byid,
                     x |-> w.list[byid].x + CDiv(w.list[byid].width, 2),
                     y |-> w.list[byid].y + CDiv(w.list[byid].height, 2)]
               ELSE IF center # 0 THEN [th |-> center, x |-> cx, y |-> cy]
               ELSE [th |-> 1,
                     x |-> w.list[1].x + CDiv(w.list[1].width, 2),
                     y |-> w.list[1].y + CDiv(w.list[1].height, 2)]
        new_size == CDiv(w.view_width, newzoom)
        new_pos == CDiv(sel.y, new_size) * newzoom + CDiv(sel.x, new_size)
        so == dt_thumbtable_set_offset(w, w.list[sel.th].rowid - new_pos, FALSE)
    IN [so.w EXCEPT !.zoom = newzoom]

\* dt_thumbtable_zoom_changed
dt_thumbtable_zoom_changed(w, oldzoom, newzoom) ==
  IF oldzoom = newzoom THEN w
  ELSE IF w.list = <<>> THEN w
  ELSE IF w.mode = "FILEMANAGER" THEN _filemanager_zoom(w, oldzoom, newzoom)
  ELSE w

---------------------------------------------------------------------------
(* Collection changes *)

\* NextValidInList that finds no image; C22 fails with it
NoValidInList(w, l, newid) ==
  [after |-> FALSE, nrow |-> -1, newid |-> newid, done |-> FALSE]

\* the first thumb after the one of newid (in list order, or in reverse
\* order) whose image still has a row: [nrow, newid], nrow = -1 if none
NextValidInList(w, l, newid) ==
  LET R[i \in 0..Len(l)] ==
        IF i = 0 THEN [after |-> FALSE, nrow |-> -1, newid |-> newid, done |-> FALSE]
        ELSE LET r == R[i - 1]
                 thumb == l[i]
                 nrow == _thumb_get_rowid(w, thumb.imgid)
             IN IF r.done THEN r
                ELSE IF r.after /\ nrow > 0
                THEN [after |-> TRUE, nrow |-> nrow, newid |-> thumb.imgid, done |-> TRUE]
                ELSE [after |-> r.after \/ thumb.imgid = r.newid,
                      nrow |-> IF r.after THEN nrow ELSE r.nrow,
                      newid |-> r.newid, done |-> FALSE]
  IN R[Len(l)]

\* the end of the reload: the image proposed as next takes the hover if the
\* hovered one is not shown any more (w4 is the table after the redraws)
ReloadHover(old_hover, w4, next, darkroom) ==
  LET hover_in_list == \E i \in 1..Len(w4.list) : w4.list[i].imgid = old_hover
      next_in_list == \E i \in 1..Len(w4.list) : w4.list[i].imgid = next
  IN IF /\ old_hover > 0 /\ next > 0
        /\ (w4.mouse_inside \/ ~darkroom)
        /\ ~hover_in_list /\ next_in_list
     THEN dt_control_set_mouse_over_id(w4, next)
     ELSE w4

\* the reload after its full redraw, which gave w3: the filmstrip goes back
\* to the image old_offset it was at
ReloadRestore(old_hover, old_offset, w3, next, darkroom) ==
  LET back == IF old_offset > 0 /\ old_offset # w3.offset
              THEN _thumb_get_rowid(w3, old_offset) ELSE -1
  IN ReloadHover(old_hover,
                 IF back > 0
                 THEN dt_thumbtable_full_redraw(
                        [w3 EXCEPT !.offset = back, !.offset_imgid = old_offset],
                        TRUE, MaxDepth)
                 ELSE w3,
                 next, darkroom)

\* the reload once the filmstrip was brought to the selection (w1): the new
\* offset is looked for, then the table is redrawn
ReloadOffset(old_hover, old_offset, w1, imgs, next, darkroom) ==
  LET newid0 == IF w1.offset_imgid <= 0 /\ w1.offset > 0
                THEN _thumb_get_imgid(w1, w1.offset) ELSE w1.offset_imgid
      in_list == \E i \in 1..Len(imgs) : imgs[i] = w1.offset_imgid
      newid1 == IF in_list /\ next > 0 /\ _thumb_get_rowid(w1, w1.offset_imgid) # w1.offset
                THEN next ELSE newid0
      nrow1 == _thumb_get_rowid(w1, newid1)
      fwd == IF nrow1 <= 0 THEN NextValidInList(w1, w1.list, newid1)
             ELSE [nrow |-> nrow1, newid |-> newid1]
      bwd == IF fwd.nrow <= 0 THEN NextValidInList(w1, Reverse(w1.list), fwd.newid)
             ELSE [nrow |-> fwd.nrow, newid |-> fwd.newid]
      nrow == bwd.nrow
      newid == bwd.newid
      offset_changed == Max(1, nrow) # w1.offset
      w2 == [w1 EXCEPT !.offset_imgid = IF nrow >= 1 THEN newid ELSE _thumb_get_imgid(w1, 1),
                       !.offset = Max(1, nrow),
                       !.conf_pos0 = IF offset_changed THEN Max(1, nrow) ELSE @]
  IN ReloadRestore(old_hover, old_offset,
                   dt_thumbtable_full_redraw(w2, TRUE, MaxDepth), next, darkroom)

\* _dt_collection_changed_callback, query_change = DT_COLLECTION_CHANGE_RELOAD.
\* w holds the new collection already; imgs are the changed images, next the
\* image proposed as the new offset, darkroom tells the current view.
CollectionReload(w, imgs, next, darkroom) ==
  LET tmpoff == dt_selection_get_first_id(w)
      strip == w.mode = "FILMSTRIP" /\ tmpoff > -1 /\ tmpoff # w.offset_imgid
  IN ReloadOffset(w.mouse_over_id,
                  IF strip THEN w.offset_imgid ELSE -1,
                  IF strip
                  THEN dt_thumbtable_full_redraw(
                         [w EXCEPT !.offset = _thumb_get_rowid(w, tmpoff),
                                   !.offset_imgid = tmpoff], TRUE, MaxDepth)
                  ELSE w,
                  imgs, next, darkroom)

\* CollectionReset that redraws the table where it is; C31 fails with it
CollectionRedrawnInPlace(w) == dt_thumbtable_full_redraw(w, TRUE, MaxDepth)

\* _dt_collection_changed_callback, any other query_change
CollectionReset(w) ==
  LET w1 == [w EXCEPT !.offset = 1] IN
  dt_thumbtable_full_redraw(
    [w1 EXCEPT !.offset_imgid = _thumb_get_imgid(w1, 1), !.conf_pos0 = 1],
    TRUE, MaxDepth)

\* _dt_collection_changed_callback
_dt_collection_changed_callback(w, reload, imgs, next, darkroom) ==
  IF reload THEN CollectionReload(w, imgs, next, darkroom) ELSE CollectionReset(w)

---------------------------------------------------------------------------
(* act_on.c: the images to act on *)

\* dt_selection_get_list: the selected images, those of the collection only
\* when only_visible, by rowid when ordered
SortByRow(w, l) ==
  LET RowOf(id) == IF _thumb_get_rowid(w, id) > 0 THEN _thumb_get_rowid(w, id)
                   ELSE Len(w.collection) + id
      R[k \in 0..Len(l)] ==
        IF k = 0 THEN <<>>
        ELSE LET e == l[k]
                 lo == SelectSeq(R[k - 1], LAMBDA x : RowOf(x) <= RowOf(e))
                 hi == SelectSeq(R[k - 1], LAMBDA x : RowOf(x) > RowOf(e))
             IN lo \o <<e>> \o hi
  IN R[Len(l)]

dt_selection_get_list(w, only_visible, ordered) ==
  LET InCollection(id) == _thumb_get_rowid(w, id) > 0
      l == IF only_visible THEN SelectSeq(w.selection, InCollection) ELSE w.selection
  IN IF ordered THEN SortByRow(w, l) ELSE l

\* _find_custom: 0 when the two ids are the same
_find_custom(a, b) == IF a # b THEN 1 ELSE 0

\* g_list_find_custom, then g_list_append when nothing was found
AppendNew(l, imgid) ==
  IF \E i \in 1..Len(l) : _find_custom(l[i], imgid) = 0 THEN l ELSE Append(l, imgid)

\* the images of the group of imgid that are in the collection, by id
GroupInCollection(w, imgid) ==
  LET InGroup(id) == GroupOf(id) = GroupOf(imgid) /\ _thumb_get_rowid(w, id) > 0
  IN SelectSeq([i \in 1..NImg |-> i], InGroup)

\* _insert_in_list that never looks at the group: what the set would be if
\* the image alone were added in every case; C9 fails with it
InsertAlone(w, l, imgid, only_visible) == AppendNew(l, imgid)

\* _insert_in_list
_insert_in_list(w, l, imgid, only_visible) ==
  IF only_visible THEN AppendNew(l, imgid)
  ELSE IF imgid \notin Images THEN l
  ELSE IF ~w.grouping \/ w.expanded_group_id = GroupOf(imgid)
       THEN AppendNew(l, imgid)
       ELSE LET g == GroupInCollection(w, imgid)
                R[k \in 0..Len(g)] == IF k = 0 THEN l ELSE AppendNew(R[k - 1], g[k])
            IN R[Len(g)]

\* _test_cache
_test_cache(w, cache) ==
  /\ cache.ok
  /\ cache.image_over = w.mouse_over_id
  /\ cache.inside_table = w.mouse_inside
  /\ Len(cache.active_imgs) = Len(w.active_images)
  /\ \/ w.mouse_inside
     \/ cache.active_imgs = <<>>
     \/ \A i \in 1..Min(Len(cache.active_imgs), Len(w.active_images)) :
          cache.active_imgs[i] = w.active_images[i]

\* the cache that only_visible names
CacheOf(w, only_visible) ==
  IF only_visible THEN w.act_on_cache_visible ELSE w.act_on_cache_all

SetCache(w, only_visible, cache) ==
  IF only_visible THEN [w EXCEPT !.act_on_cache_visible = cache]
  ELSE [w EXCEPT !.act_on_cache_all = cache]

\* the loop of _cache_update over the active images
ActiveInserted(w, l0, only_visible) ==
  LET R[k \in 0..Len(w.active_images)] ==
        IF k = 0 THEN l0
        ELSE LET id == w.active_images[k]
                 l1 == _insert_in_list(w, R[k - 1], id, only_visible)
             IN IF ~only_visible THEN _insert_in_list(w, l1, id, TRUE) ELSE l1
  IN R[Len(w.active_images)]

\* _cache_update that takes a valid cache whatever its order; C32 fails
\* with it
CacheUpdateAnyOrder(w, only_visible, force, ordered) ==
  LET cache == CacheOf(w, only_visible) IN
  IF ~force /\ _test_cache(w, cache)
  THEN [w |-> w, ret |-> FALSE]
  ELSE LET l == ActiveInserted(w, dt_selection_get_list(w, only_visible, ordered),
                               only_visible)
       IN [w |-> SetCache(w, only_visible,
                          [ok |-> TRUE, ordered |-> ordered,
                           image_over |-> w.mouse_over_id,
                           inside_table |-> w.mouse_inside,
                           active_imgs |-> w.active_images,
                           images |-> l, images_nb |-> Len(l)]),
           ret |-> TRUE]

\* _cache_update
_cache_update(w, only_visible, force, ordered) ==
  LET cache == CacheOf(w, only_visible) IN
  IF ~force /\ cache.ordered = ordered /\ _test_cache(w, cache)
  THEN [w |-> w, ret |-> FALSE]
  ELSE LET l == ActiveInserted(w, dt_selection_get_list(w, only_visible, ordered),
                               only_visible)
       IN [w |-> SetCache(w, only_visible,
                          [ok |-> TRUE, ordered |-> ordered,
                           image_over |-> w.mouse_over_id,
                           inside_table |-> w.mouse_inside,
                           active_imgs |-> w.active_images,
                           images |-> l, images_nb |-> Len(l)]),
           ret |-> TRUE]

\* dt_act_on_get_images
dt_act_on_get_images(w, only_visible, force, ordered) ==
  LET u == _cache_update(w, only_visible, force, ordered)
      cache == CacheOf(u.w, only_visible)
  IN [w |-> u.w, ret |-> IF cache.ok THEN cache.images ELSE <<>>]

\* the SELECT of dt_act_on_get_main_image: the selected image of the
\* collection that has the smallest rowid
FirstSelectedInCollection(w) ==
  LET rowids == {_thumb_get_rowid(w, w.selection[i]) : i \in 1..Len(w.selection)}
                  \ {-1}
  IN IF rowids = {} THEN -1
     ELSE _thumb_get_imgid(w, CHOOSE r \in rowids : \A q \in rowids : r <= q)

\* dt_act_on_get_main_image with the first active image taken before the
\* hovered one; C8 fails with it
ActiveBeforeHover(w) ==
  IF w.active_images # <<>> THEN Head(w.active_images)
  ELSE IF w.mouse_over_id > 0 THEN w.mouse_over_id
  ELSE FirstSelectedInCollection(w)

\* dt_act_on_get_main_image
dt_act_on_get_main_image(w) ==
  IF w.mouse_over_id > 0 THEN w.mouse_over_id
  ELSE IF w.active_images # <<>> THEN Head(w.active_images)
  ELSE FirstSelectedInCollection(w)

\* dt_act_on_get_images_nb
dt_act_on_get_images_nb(w, only_visible, force) ==
  IF ~force /\ _test_cache(w, CacheOf(w, only_visible))
  THEN [w |-> w, ret |-> CacheOf(w, only_visible).images_nb]
  ELSE LET u == _cache_update(w, only_visible, force, FALSE)
           cache == CacheOf(u.w, only_visible)
       IN [w |-> u.w, ret |-> IF cache.ok THEN cache.images_nb ELSE 0]

\* dt_act_on_reset_cache that leaves the cache valid; C6 fails with it
KeepCache(w, only_visible) == w

\* dt_act_on_reset_cache
dt_act_on_reset_cache(w, only_visible) ==
  SetCache(w, only_visible, [CacheOf(w, only_visible) EXCEPT !.ok = FALSE])

\* the selection or the collection has changed: both caches are reset
ResetCaches(w) == dt_act_on_reset_cache(dt_act_on_reset_cache(w, TRUE), FALSE)

---------------------------------------------------------------------------
(* The state machine *)

\* the world a handler starts in
World ==
  [mode |-> mode,
   list |-> list,
   thumbs_area |-> thumbs_area, thumb_size |-> thumb_size,
   thumbs_per_row |-> thumbs_per_row, rows |-> rows,
   view_width |-> view_width, view_height |-> view_height,
   center_offset |-> center_offset, offset |-> offset,
   offset_imgid |-> offset_imgid, realign_top_try |-> realign_top_try,
   code_scrolling |-> code_scrolling, scrollbars |-> scrollbars,
   mouse_inside |-> mouse_inside, last_x |-> last_x, last_y |-> last_y,
   zoom |-> zoom, mouse_over_id |-> mouse_over_id, conf_pos0 |-> conf_pos0,
   vscrollbar_visible |-> vscrollbar_visible,
   allocation |-> allocation, collection |-> collection, selection |-> selection,
   act_on_cache_visible |-> act_on_cache_visible,
   act_on_cache_all |-> act_on_cache_all, active_images |-> active_images,
   grouping |-> grouping, expanded_group_id |-> expanded_group_id,
   diverged |-> FALSE, query |-> <<>>]

\* the thumbs of w, none of them marked as created by the last handler
Settled(l) == [i \in 1..Len(l) |-> [l[i] EXCEPT !.fresh = FALSE]]

\* a handler has run and has left the world w; one that does not return
\* leaves the program hung
Commit(w) ==
  /\ ~hung
  /\ IF w.diverged
       THEN hung' = TRUE /\ UNCHANGED <<tablevars, envvars, actoncore>>
       ELSE /\ hung' = FALSE
            /\ mode' = w.mode
            /\ list' = Settled(w.list)
            /\ thumbs_area' = w.thumbs_area
            /\ thumb_size' = w.thumb_size
            /\ thumbs_per_row' = w.thumbs_per_row
            /\ rows' = w.rows
            /\ view_width' = w.view_width
            /\ view_height' = w.view_height
            /\ center_offset' = w.center_offset
            /\ offset' = w.offset
            /\ offset_imgid' = w.offset_imgid
            /\ realign_top_try' = w.realign_top_try
            /\ code_scrolling' = w.code_scrolling
            /\ scrollbars' = w.scrollbars
            /\ mouse_inside' = w.mouse_inside
            /\ last_x' = w.last_x
            /\ last_y' = w.last_y
            /\ zoom' = w.zoom
            /\ mouse_over_id' = w.mouse_over_id
            /\ conf_pos0' = w.conf_pos0
            /\ vscrollbar_visible' = w.vscrollbar_visible
            /\ allocation' = w.allocation
            /\ collection' = w.collection
            /\ selection' = w.selection
            /\ act_on_cache_visible' = w.act_on_cache_visible
            /\ act_on_cache_all' = w.act_on_cache_all
            /\ active_images' = w.active_images
            /\ grouping' = w.grouping
            /\ expanded_group_id' = w.expanded_group_id

\* widget sizes (width, height): a viewport higher than wide, a low and wide
\* one whose height is a whole number of thumbs, one below the smallest size
Allocations == {<<48, 60>>, <<76, 24>>, <<10, 10>>}

\* the collections that a change of the query can leave
Ident == [i \in 1..NImg |-> i]
Without(c, id) == LET Keep(e) == e # id IN SelectSeq(c, Keep)
AllImages == Reverse(Ident)
Collections == {AllImages, Without(AllImages, 3), <<>>}

\* the selections: nothing, or one image
Selections == {<<>>, <<3>>}

\* dt_thumbtable_new: the table after construction
TableNew ==
  /\ mode = "NONE"
  /\ list = <<>>
  /\ thumbs_area = [x |-> 0, y |-> 0, width |-> 0, height |-> 0]
  /\ thumb_size = 0
  /\ thumbs_per_row = 0
  /\ rows = 0
  /\ view_width = 0
  /\ view_height = 0
  /\ center_offset = 0
  /\ offset = Max(1, conf_pos0)
  /\ offset_imgid = 0
  /\ realign_top_try = 0
  /\ code_scrolling = FALSE
  /\ scrollbars = FALSE
  /\ mouse_inside = FALSE
  /\ last_x = 0
  /\ last_y = 0
  /\ mouse_over_id = -1
  /\ vscrollbar_visible = FALSE
  /\ hung = FALSE

\* a cache of the images to act on that was never filled
NoCache == [ok |-> FALSE, ordered |-> FALSE, image_over |-> 0,
            inside_table |-> FALSE, active_imgs |-> <<>>,
            images |-> <<>>, images_nb |-> 0]

ActOnNew ==
  /\ act_on_cache_visible = NoCache
  /\ act_on_cache_all = NoCache

\* the program starts on the whole library, nothing selected, at the
\* position that the last session left
Init ==
  /\ conf_pos0 \in {0, 3}
  /\ TableNew
  /\ zoom \in 1..MaxZoom
  /\ allocation \in Allocations
  /\ collection = AllImages
  /\ selection = <<>>
  /\ ActOnNew
  /\ active_images = <<>>
  /\ grouping = TRUE
  /\ expanded_group_id = -1

\* dt_thumbtable_set_parent: the table enters the lighttable or the
\* filmstrip, once (the list is still empty)
SetParent(m) ==
  /\ mode = "NONE"
  /\ Commit([World EXCEPT !.mode = m, !.scrollbars = TRUE, !.code_scrolling = FALSE])

\* _event_draw
Draw ==
  /\ mode # "NONE"
  /\ collection_count(World) # 0
  /\ Commit(dt_thumbtable_full_redraw(World, FALSE, MaxDepth))

\* the widget gets another size, and the draw event that follows redraws it
Resize(a) ==
  /\ mode # "NONE"
  /\ a # allocation
  /\ Commit(dt_thumbtable_full_redraw([World EXCEPT !.allocation = a], FALSE, MaxDepth))

\* _dt_pref_change_callback
PrefChange ==
  /\ mode # "NONE"
  /\ Commit(dt_thumbtable_full_redraw(World, TRUE, MaxDepth))

\* the pointer and the keyboard reach a table that is large enough to be
\* shown; the offset, that moves can push past the collection, is followed
\* up to MaxOffset
Shown ==
  /\ allocation[1] > MinViewSize
  /\ allocation[2] > MinViewSize
  /\ offset <= MaxOffset

\* _event_scroll
Scroll(delta) ==
  /\ mode # "NONE"
  /\ Shown
  /\ LET r == _event_scroll(World, delta) IN Commit(r.w)

\* the fractions of a row the scrollbar can stop at
ScrollFractions == {<<0, 1>>, <<1, 2>>}

\* the scrollbar can be put at line + f[1] / f[2] rows: its value stays
\* within 0 and the number of rows of the collection less the rows shown
ScrollbarRange(line, f) ==
  \/ line = 0 /\ f[1] = 0
  \/ /\ thumbs_per_row > 0
     /\ (line * f[2] + f[1]) * thumbs_per_row
          <= f[2] * (collection_count(World) + thumbs_per_row - 1
                     - (rows - 1) * thumbs_per_row)

\* dt_thumbtable_scrollbar_changed
ScrollbarChanged(line, f) ==
  /\ mode # "NONE"
  /\ Shown
  /\ ScrollbarRange(line, f)
  /\ Commit(dt_thumbtable_scrollbar_changed(World, line, f[1], f[2]))

\* dt_thumbtable_key_move
KeyMove(move) ==
  /\ mode # "NONE"
  /\ Shown
  /\ LET r == dt_thumbtable_key_move(World, move) IN Commit(r.w)

\* DT_SIGNAL_COLLECTION_CHANGED after the collection became c
CollectionChanged(c, reload, imgs, next, darkroom) ==
  /\ mode # "NONE"
  /\ Commit(_dt_collection_changed_callback(ResetCaches([World EXCEPT !.collection = c]),
                                           reload, imgs, next, darkroom))

\* _event_motion_notify, then the thumb under the pointer takes the hover
MotionNotify(x, y) ==
  /\ mode # "NONE"
  /\ Shown
  /\ LET w == [World EXCEPT !.mouse_inside = TRUE, !.last_x = x, !.last_y = y]
         th == _thumb_get_at_pos(w, x, y)
     IN Commit(IF th # 0 THEN dt_control_set_mouse_over_id(w, w.list[th].imgid) ELSE w)

\* _event_leave_notify
LeaveNotify ==
  /\ mode # "NONE"
  /\ mouse_inside
  /\ Commit(dt_control_set_mouse_over_id([World EXCEPT !.mouse_inside = FALSE], -1))

\* the selection becomes sel (_dt_selection_changed_callback has nothing to
\* do on the state kept here)
SelectionChanged(sel) ==
  /\ mode # "NONE"
  /\ sel # selection
  /\ Commit(ResetCaches([World EXCEPT !.selection = sel]))

\* dt_thumbtable_zoom_changed, and the draw event that it queues
ZoomChanged(newzoom) ==
  /\ mode = "FILEMANAGER"
  /\ newzoom # zoom
  /\ list # <<>>
  /\ Commit(dt_thumbtable_full_redraw(dt_thumbtable_zoom_changed(World, zoom, newzoom),
                                      FALSE, MaxDepth))

\* what a reload comes with: the changed images (none, or the image of the
\* offset), the image proposed to follow them (none, or image 2) and whether
\* the darkroom is the current view; the view matters with a next image only
ReloadArgs ==
  {a \in {<<>>, <<offset_imgid>>} \X {-1, 2} \X BOOLEAN :
     a[3] => (a[1] # <<>> /\ a[2] > 0)}

Next ==
  \/ \E m \in {"FILEMANAGER", "FILMSTRIP"} : SetParent(m)
  \/ Draw
  \/ \E a \in Allocations : Resize(a)
  \/ PrefChange
  \/ \E delta \in {-1, 1} : Scroll(delta)
  \/ \E line \in 0..NImg, f \in ScrollFractions : ScrollbarChanged(line, f)
  \/ \E move \in Moves : KeyMove(move)
  \/ \E c \in Collections, a \in ReloadArgs :
       CollectionChanged(c, TRUE, a[1], a[2], a[3])
  \/ \E c \in Collections : CollectionChanged(c, FALSE, <<>>, -1, FALSE)
  \/ \E sel \in Selections : SelectionChanged(sel)

Spec == Init /\ [][Next]_vars

---------------------------------------------------------------------------
(* The table under clamped moves only: it is drawn once, then scrolled by  *)
(* the wheel (one row or one thumb at a time) or by the keys               *)

\* the sizes of a table that is shown
Viewports ==
  {a \in Allocations : a[1] > MinViewSize /\ a[2] > MinViewSize}
    \cup {<<60, 24>>, <<50, 70>>}

InitMove ==
  /\ conf_pos0 \in 0..NImg
  /\ TableNew
  /\ zoom \in 1..MaxZoom
  /\ allocation \in Viewports
  /\ collection \in Collections
  /\ selection \in Selections
  /\ ActOnNew
  /\ active_images = <<>>
  /\ grouping = TRUE
  /\ expanded_group_id = -1

NextScroll ==
  \/ \E m \in {"FILEMANAGER", "FILMSTRIP"} : SetParent(m)
  \/ Draw
  \/ \E delta \in {-1, 1} : Scroll(delta)

SpecScroll == InitMove /\ [][NextScroll]_vars

NextMove ==
  \/ NextScroll
  \/ \E move \in Moves : KeyMove(move)

SpecMove == InitMove /\ [][NextMove]_vars

\* the table under full redraws, scrolls of the wheel and changes of the
\* scrollbar
NextBar ==
  \/ NextScroll
  \/ PrefChange
  \/ \E line \in 0..NImg, f \in ScrollFractions : ScrollbarChanged(line, f)

SpecBar == InitMove /\ [][NextBar]_vars

\* the sizes the widget is given when only the sizes are looked at: widths
\* that hold a whole number of thumbs and widths that do not
Sizes == {21, 48, 49, 76, 96, 100} \X {21, 24, 25}

InitSizes ==
  /\ conf_pos0 \in {0, 3}
  /\ TableNew
  /\ zoom \in 1..MaxZoom
  /\ allocation \in Sizes
  /\ collection = AllImages
  /\ selection = <<>>
  /\ ActOnNew
  /\ active_images = <<>>
  /\ grouping = TRUE
  /\ expanded_group_id = -1

NextSizes ==
  \/ \E m \in {"FILEMANAGER", "FILMSTRIP"} : SetParent(m)
  \/ \E a \in Sizes : Resize(a)

SpecSizes == InitSizes /\ [][NextSizes]_vars

---------------------------------------------------------------------------
(* The images to act on: the lighttable is shown, the pointer and the keys *)
(* move the hover, views change the active images, and the callers of      *)
(* act_on.c ask for the images                                             *)

\* dt_act_on_get_images
GetImages(only_visible, force, ordered) ==
  Commit(dt_act_on_get_images(World, only_visible, force, ordered).w)

\* dt_act_on_get_images_nb
GetImagesNb(only_visible, force) ==
  Commit(dt_act_on_get_images_nb(World, only_visible, force).w)

\* dt_act_on_get_main_image: it returns an id and leaves everything as it is
GetMainImage == Commit(World)

\* dt_act_on_reset_cache
ResetCache(only_visible) ==
  /\ CacheOf(World, only_visible).ok
  /\ Commit(dt_act_on_reset_cache(World, only_visible))

\* a view changes its active images (darktable.view_manager->active_images)
ActiveImagesChanged(l) ==
  /\ l # active_images
  /\ Commit([World EXCEPT !.active_images = l])

\* the active images: none, or two images; the two lists have the same
\* length, another first image, and differ as sets
ActiveLists == {<<>>, <<2, 5>>, <<5, 1>>}

\* the selections: none, or three images given against the rowids, image 3
\* being outside the collection
ActOnSelections == {<<>>, <<1, 3, 4>>}

InitActOn ==
  /\ conf_pos0 = 0
  /\ TableNew
  /\ zoom = MaxZoom
  /\ allocation = <<48, 60>>
  /\ collection = Without(AllImages, 3)
  /\ selection = <<>>
  /\ ActOnNew
  /\ active_images = <<>>
  /\ grouping \in BOOLEAN
  /\ expanded_group_id \in IF grouping THEN {-1, GroupLeader} ELSE {-1}

NextActOn ==
  \/ SetParent("FILEMANAGER")
  \/ Draw
  \/ \E p \in {<<12, 12>>, <<36, 50>>} : MotionNotify(p[1], p[2])
  \/ LeaveNotify
  \/ \E sel \in ActOnSelections : SelectionChanged(sel)
  \/ \E l \in ActiveLists : ActiveImagesChanged(l)
  \/ \E only_visible, force, ordered \in BOOLEAN : GetImages(only_visible, force, ordered)
  \/ \E only_visible, force \in BOOLEAN : GetImagesNb(only_visible, force)
  \/ GetMainImage
  \/ \E only_visible \in BOOLEAN : ResetCache(only_visible)

SpecActOn == InitActOn /\ [][NextActOn]_vars

---------------------------------------------------------------------------
(* The window: the thumbs of table->list *)

---------------------------------------------------------------------------
(* Full redraw *)

Ids(l) == {l[i].imgid : i \in 1..Len(l)}

\* the table after a forced full redraw at offset o: dt_thumbtable_set_offset
\* when the offset changes, the redraw alone when it does not
RedrawnAt(o) ==
  IF o = offset THEN dt_thumbtable_full_redraw(World, TRUE, MaxDepth)
  ELSE dt_thumbtable_set_offset(World, o, TRUE).w

\* the thumb at position k of l is where the layout puts it after the
\* thumb before it: next on the same row, or first of the next row
LaidOut(w, l, k) ==
  \/ k = 1
  \/ l[k].y = l[k - 1].y /\ l[k].x = l[k - 1].x + w.thumb_size
  \/ l[k].y = l[k - 1].y + w.thumb_size /\ l[k].x <= l[k - 1].x

\* what C3 asks of the redraw at offset o
Reconciled(o) ==
  LET R == RedrawnAt(o)
      Kept(imgid) == \E k \in 1..Len(R.list) :
                       /\ R.list[k].imgid = imgid
                       /\ ~R.list[k].fresh
                       /\ R.list[k].rowid = _thumb_get_rowid(World, imgid)
                       /\ LaidOut(R, R.list, k)
  IN /\ \A i \in 1..Len(list) : list[i].imgid \in Range(R.query) => Kept(list[i].imgid)
     /\ \A k \in 1..Len(R.list) : R.list[k].fresh => R.list[k].imgid \notin Ids(list)
     /\ \A i \in 1..Len(list) : ~Kept(list[i].imgid) => list[i].imgid \notin Range(R.query)

\* the redraw does not scroll to the selection: dt_thumbtable_full_redraw
\* calls dt_thumbtable_ensure_imgid_visibility in FILEMANAGER mode only, and
\* only when an image is selected
NoScroll == mode = "FILMSTRIP" \/ (mode = "FILEMANAGER" /\ selection = <<>>)

\* C3 (amended): when the full redraw does not scroll to the selection, a
\* thumb of the old window whose image the query of the new range returns
\* is kept (same thumb, rowid and position updated), a thumb is created only
\* for an image that had none in the old window, and a thumb is destroyed
\* only when its image is not in the new range.
RedrawReusesThumbs == NoScroll => \A o \in 1..NImg : Reconciled(o)

\* C3 as stated, for every full redraw, also one that scrolls to the
\* selection
RedrawAlwaysReusesThumbs == mode # "NONE" => \A o \in 1..NImg : Reconciled(o)

\* a redraw that does not scroll keeps one thumb, creates one and destroys one
RedrawKeepsCreatesDestroys ==
  /\ NoScroll
  /\ \E o \in 1..NImg :
       LET R == RedrawnAt(o) IN
       /\ \E k \in 1..Len(R.list) : ~R.list[k].fresh
       /\ \E k \in 1..Len(R.list) : R.list[k].fresh
       /\ \E i \in 1..Len(list) : list[i].imgid \notin Ids(R.list)

\* what a redraw leaves on screen: the thumbs (image, rowid, position), in
\* order, and the offset
Shape(w) ==
  <<[i \in 1..Len(w.list) |-> <<w.list[i].imgid, w.list[i].rowid, w.list[i].x, w.list[i].y>>],
    w.offset>>

\* a second forced full redraw, right after the one that left w
Again(w) == dt_thumbtable_full_redraw([w EXCEPT !.list = Settled(w.list)], TRUE, MaxDepth)

\* C4: a forced full redraw done twice in a row leaves, after the second
\* one, the window (images, rowids, positions, order) and the offset that the
\* first one left, in both modes, with or without a selection.
RedrawIdempotent ==
  mode # "NONE" =>
    LET R == dt_thumbtable_full_redraw(World, TRUE, MaxDepth)
    IN ~R.diverged => Shape(Again(R)) = Shape(R)

\* C5: from a non-empty window, a clamped move of one row (FILEMANAGER) or of
\* one thumb (FILMSTRIP) never leaves the window empty.
ScrollNeverEmpties ==
  (mode # "NONE" /\ list # <<>>) =>
    \A delta \in {-1, 1} : _event_scroll(World, delta).w.list # <<>>

---------------------------------------------------------------------------
(* The images to act on *)

\* the cache records the hover id, the active images and the mouse-inside
\* flag that the program has now
Recorded(cache) ==
  /\ cache.image_over = mouse_over_id
  /\ cache.active_imgs = active_images
  /\ cache.inside_table = mouse_inside

\* C6: whenever the hover id, the active images and the mouse-inside flag
\* are those the cache was built with, dt_act_on_get_images(only_visible,
\* force = FALSE, ordered) returns what a forced recomputation returns, after
\* any sequence of selection changes, hover changes and queries.
CacheAgreesWithRecomputation ==
  \A only_visible, ordered \in BOOLEAN :
    Recorded(CacheOf(World, only_visible))
      => dt_act_on_get_images(World, only_visible, FALSE, ordered).ret
           = dt_act_on_get_images(World, only_visible, TRUE, ordered).ret

\* a cache built after the selection and the hover have changed, still in
\* use: it lists the selected and the active images
CacheInUse ==
  /\ act_on_cache_all.ok
  /\ Recorded(act_on_cache_all)
  /\ selection # <<>>
  /\ active_images # <<>>
  /\ mouse_over_id > 0
  /\ ~_cache_update(World, FALSE, FALSE, act_on_cache_all.ordered).ret

\* C7: when the hover id, an element of the active images or the
\* mouse-inside flag is not the one recorded in a valid cache, the next
\* _cache_update(force = FALSE) rebuilds the list, whatever the mouse-inside
\* flag and the length of the active images.
ChangedCacheIsRebuilt ==
  \A only_visible, ordered \in BOOLEAN :
    LET cache == CacheOf(World, only_visible) IN
    (cache.ok /\ ~Recorded(cache))
      => _cache_update(World, only_visible, FALSE, ordered).ret

\* the selected images that are in the collection
SelectedInCollection == Range(selection) \cap Range(collection)

\* C8: dt_act_on_get_main_image returns the hovered image if there is one
\* (id > 0), else the first active image, else the selected image of the
\* collection with the smallest rowid, else -1, and the caches have no part
\* in it.
MainImagePriority ==
  LET r == dt_act_on_get_main_image(World) IN
  /\ mouse_over_id > 0 => r = mouse_over_id
  /\ (mouse_over_id <= 0 /\ active_images # <<>>) => r = active_images[1]
  /\ (mouse_over_id <= 0 /\ active_images = <<>> /\ SelectedInCollection # {})
       => /\ r \in SelectedInCollection
          /\ \A id \in SelectedInCollection :
               _thumb_get_rowid(World, r) <= _thumb_get_rowid(World, id)
  /\ (mouse_over_id <= 0 /\ active_images = <<>> /\ SelectedInCollection = {}) => r = -1
  /\ \A c \in {NoCache, [NoCache EXCEPT !.ok = TRUE, !.images = <<1>>, !.images_nb = 1]} :
       dt_act_on_get_main_image([World EXCEPT !.act_on_cache_visible = c,
                                              !.act_on_cache_all = c]) = r

\* nothing hovered, no active image, a valid cache, and a selection whose
\* first image is neither in the collection first nor the main image
MainImageFromSelection ==
  /\ mouse_over_id <= 0
  /\ active_images = <<>>
  /\ act_on_cache_visible.ok
  /\ Cardinality(SelectedInCollection) >= 2
  /\ dt_act_on_get_main_image(World) # Head(selection)

\* what the active image a brings in when only_visible is FALSE
Pulled(a) ==
  IF grouping /\ expanded_group_id # GroupOf(a)
  THEN {i \in Images : GroupOf(i) = GroupOf(a) /\ i \in Range(collection)} \cup {a}
  ELSE {a}

\* C9: with only_visible = FALSE every active image brings in the images of
\* its group that are in the collection when grouping is on and its group is
\* not the expanded one, and itself alone otherwise; with only_visible = TRUE
\* an active image brings in nothing but itself.
GroupExpansion ==
  \A ordered \in BOOLEAN :
    /\ Range(dt_act_on_get_images(World, FALSE, TRUE, ordered).ret)
         = Range(dt_selection_get_list(World, FALSE, ordered))
             \cup UNION {Pulled(a) : a \in Range(active_images)}
    /\ Range(dt_act_on_get_images(World, TRUE, TRUE, ordered).ret)
         = Range(dt_selection_get_list(World, TRUE, ordered)) \cup Range(active_images)

\* the two caches were built for the active images 2 and 5 with grouping on
\* and no group expanded: image 4, of the group of 2, is in one of them only
GroupPulledIn ==
  /\ grouping
  /\ expanded_group_id # GroupLeader
  /\ selection = <<>>
  /\ active_images = <<2, 5>>
  /\ act_on_cache_all.ok /\ act_on_cache_all.active_imgs = active_images
  /\ act_on_cache_visible.ok /\ act_on_cache_visible.active_imgs = active_images
  /\ Range(act_on_cache_all.images) = {2, 4, 5}
  /\ Range(act_on_cache_visible.images) = {2, 5}

---------------------------------------------------------------------------
(* Group borders *)

---------------------------------------------------------------------------
(* Intermediate steps of the operations *)

\* C11: while a forced full redraw or a move of one row runs, the list that
\* table->list gives at every step is the whole list of before the
\* operation or the whole list of after it.
ListNeverHalfUpdated ==
  (mode # "NONE" /\ thumb_size > 0) =>
    /\ LET R == dt_thumbtable_full_redraw(World, TRUE, MaxDepth) IN
       \A k \in 0..Len(R.query) :
         Settled(ListDuringRedraw(list, R.query, k)) \in {list, Settled(R.list)}
    /\ LET M == MoveThumbs(World, 0, -thumb_size) IN
       \A k \in 0..Len(list) :
         Settled(ListDuringMove(list, 0, -thumb_size, k)) \in {list, Settled(M.list)}

\* C12: in a key move that changes the hovered image, the thumbs that the
\* hover callback marked are the thumbs the event leaves: the window is not
\* moved or reloaded by the same event after the marks were computed.
KeyMoveMarksAfterMoves ==
  mode = "FILEMANAGER" =>
    \A move \in Moves :
      LET t == KeyMoveTarget(World, move) IN
      (t.ends /\ _thumb_get_imgid(World, t.newrowid) # mouse_over_id) =>
        Shape(_filemanager_key_move(World, move).w) = Shape(KeyMoveHoverSet(World, move))

---------------------------------------------------------------------------
(* Degenerate viewport *)

\* the viewport of the state as it was before the widget shrank to allocation a
Shrunk(a) == [World EXCEPT !.allocation = a]

\* C13: when the widget shrinks to 20 pixels or less, a full redraw, forced or
\* not, leaves the thumbs and their places, the offset, thumb_size, rows,
\* thumbs_per_row and the recorded view_width and view_height as they were,
\* and a later scroll does what it did before the widget shrank.
DegenerateRedrawFreezes ==
  (mode # "NONE" /\ view_width > MinViewSize /\ view_height > MinViewSize) =>
    \A a \in {b \in Allocations : b[1] <= MinViewSize \/ b[2] <= MinViewSize} :
      \A force \in BOOLEAN :
        LET R == dt_thumbtable_full_redraw(Shrunk(a), force, MaxDepth) IN
        /\ Settled(R.list) = list
        /\ R.offset = offset
        /\ R.thumb_size = thumb_size
        /\ R.rows = rows
        /\ R.thumbs_per_row = thumbs_per_row
        /\ R.view_width = view_width
        /\ R.view_height = view_height
        /\ \A delta \in {-1, 1} :
             Shape(_event_scroll(R, delta).w) = Shape(_event_scroll(World, delta).w)

---------------------------------------------------------------------------
(* Key moves *)

\* the pointer enters the thumb of image h: the table with h hovered
Hovered(h) ==
  dt_control_set_mouse_over_id([World EXCEPT !.mouse_inside = TRUE], h)

\* C14: in the filmstrip, with the hovered image at a row r below the last
\* row of the collection, a key move to the right without selection sets the
\* hover to the image of row r + 1 and leaves its thumb inside the viewport.
StripKeyMoveRight ==
  mode = "FILMSTRIP" =>
    \A i \in 1..Len(list) :
      LET r == _thumb_get_rowid(World, list[i].imgid) IN
      (r >= 1 /\ r < collection_count(World)) =>
        LET K == dt_thumbtable_key_move(Hovered(list[i].imgid), "RIGHT").w IN
        /\ K.mouse_over_id = collection[r + 1]
        /\ \E k \in 1..Len(K.list) :
             /\ K.list[k].imgid = collection[r + 1]
             /\ K.list[k].x >= 0
             /\ K.list[k].x + K.thumb_size <= K.view_width

---------------------------------------------------------------------------
(* Moves at the end of the collection *)

\* the grid shows the whole collection from row 1
WholeCollectionShown ==
  /\ mode = "FILEMANAGER"
  /\ list # <<>>
  /\ list[1].rowid = 1
  /\ list[1].y = 0
  /\ Last(list).rowid = collection_count(World)

\* the move by one row towards the end is refused and changes nothing
MoveDownRefused ==
  LET M == _move(World, 0, -thumb_size, TRUE, MaxDepth) IN
  /\ ~M.ret
  /\ Settled(M.w.list) = list
  /\ M.w.offset = offset
  /\ M.w.thumbs_area = thumbs_area

\* C15 as stated: whenever the grid shows the whole collection from row 1, the
\* clamped move by one row towards the end returns FALSE and leaves the window
\* and the offset as they are, whatever the viewport and the columns.
MoveAtEndAlwaysRefused == WholeCollectionShown => MoveDownRefused

\* C15: when the grid shows the whole collection from row 1 and the last thumb
\* ends above the bottom of the viewport (or the window is the only image of
\* a one-column grid), the clamped move by one row towards the end returns
\* FALSE and leaves the window and the offset as they are.
MoveAtEndRefused ==
  (/\ WholeCollectionShown
   /\ \/ Last(list).y + thumb_size < view_height
      \/ thumbs_per_row = 1 /\ Len(list) = 1) => MoveDownRefused

\* the whole collection is shown on two rows with room left under them
MoveAtEndSeen ==
  /\ WholeCollectionShown
  /\ Len(list) > thumbs_per_row
  /\ Last(list).y + thumb_size < view_height

---------------------------------------------------------------------------
(* The grid a full redraw lays out *)

\* C16: in the file manager without selection, a forced full redraw from the
\* offset o leaves the offset at the start s of the row of o and a window
\* that holds exactly the rows s .. s + rows * thumbs_per_row - 1 of the
\* collection that exist, in order, the k-th one (k from 0) at
\* x = center_offset + (k mod thumbs_per_row) * thumb_size and
\* y = (k div thumbs_per_row) * thumb_size.
RedrawLaysOutGrid ==
  (/\ mode = "FILEMANAGER"
   /\ selection = <<>>
   /\ allocation[1] > MinViewSize
   /\ allocation[2] > MinViewSize) =>
    LET R == dt_thumbtable_full_redraw(World, TRUE, MaxDepth)
        npr == R.thumbs_per_row
        s == ((offset - 1) \div npr) * npr + 1
        n == Max(0, Min(R.rows * npr, collection_count(World) - s + 1))
    IN /\ R.offset = s
       /\ Len(R.list) = n
       /\ \A k \in 0..(n - 1) :
            /\ R.list[k + 1].rowid = s + k
            /\ R.list[k + 1].imgid = collection[s + k]
            /\ R.list[k + 1].x = R.center_offset + (k % npr) * R.thumb_size
            /\ R.list[k + 1].y = (k \div npr) * R.thumb_size

---------------------------------------------------------------------------
(* The row a key move goes to *)

\* C17: in the file manager with a collection that is not empty, the row that
\* a key move goes to lies in 1 .. the last row of the collection, for every
\* direction, whatever image is hovered and whether it has a row or not.
KeyMoveTargetInRange ==
  (mode = "FILEMANAGER" /\ collection_count(World) > 0) =>
    \A move \in Moves :
      LET t == KeyMoveTarget(World, move) IN
      t.ends /\ t.newrowid >= 1 /\ t.newrowid <= collection_maxrowid(World)

\* a key move made while no image is hovered goes to the row of the offset,
\* sets the hover to the image of that row and does not move the window
FirstMoveStays(move) ==
  LET K == dt_thumbtable_key_move(World, move) IN
  /\ KeyMoveTarget(World, move) = [newrowid |-> offset, ends |-> TRUE]
  /\ K.w.mouse_over_id = _thumb_get_imgid(World, offset)
  /\ Shape(K.w) = Shape(World)

\* the file manager shows thumbs and no image is hovered
NoHoverYet == mode = "FILEMANAGER" /\ list # <<>> /\ mouse_over_id <= 0

\* C18 as stated: without hover, a key move of any of the eight directions
\* goes to the row of the offset and does not scroll.
FirstMoveStaysAnyKey ==
  (NoHoverYet /\ list[1].rowid = offset) => \A move \in Moves : FirstMoveStays(move)

\* C18: without hover, a key move LEFT, RIGHT, UP or DOWN goes to the row of
\* the offset and the hover is set to the image at the offset; the window
\* does not scroll when that row lies between the first thumb and the last
\* thumb of the rows that are wholly shown.  (PAGEUP, PAGEDOWN, START and END
\* move at once.)
FirstMoveStaysArrowKeys ==
  NoHoverYet =>
    \A move \in {"LEFT", "RIGHT", "UP", "DOWN"} :
      LET K == dt_thumbtable_key_move(World, move)
          pos == Min(Len(list) - 1, thumbs_per_row * (rows - 1) - 1) IN
      /\ KeyMoveTarget(World, move) = [newrowid |-> offset, ends |-> TRUE]
      /\ K.w.mouse_over_id = _thumb_get_imgid(World, offset)
      /\ (pos >= 0 /\ list[1].rowid <= offset /\ offset <= list[pos + 1].rowid)
           => Shape(K.w) = Shape(World)

\* a first key move to the right, in a window scrolled below the first row,
\* takes the image at the offset as the hovered one
FirstMoveSeen ==
  /\ NoHoverYet
  /\ list[1].rowid = offset
  /\ offset > 1
  /\ dt_thumbtable_key_move(World, "RIGHT").w.mouse_over_id = list[1].imgid

---------------------------------------------------------------------------
(* The area of the thumbs *)

\* C19: after every operation that leaves thumbs in the list, thumbs_area is
\* the box around them: x and y are the least x and y of the thumbs, width
\* and height reach thumb_size beyond the greatest x and y.
AreaIsBoundingBox ==
  list # <<>> =>
    /\ \E i \in 1..Len(list) : list[i].x = thumbs_area.x
    /\ \E i \in 1..Len(list) : list[i].y = thumbs_area.y
    /\ \E i \in 1..Len(list) : list[i].x + thumb_size - thumbs_area.x = thumbs_area.width
    /\ \E i \in 1..Len(list) : list[i].y + thumb_size - thumbs_area.y = thumbs_area.height
    /\ \A i \in 1..Len(list) :
         /\ list[i].x >= thumbs_area.x
         /\ list[i].y >= thumbs_area.y
         /\ list[i].x + thumb_size - thumbs_area.x <= thumbs_area.width
         /\ list[i].y + thumb_size - thumbs_area.y <= thumbs_area.height

\* thumbs on two rows, scrolled by a part of a row: the area starts above the
\* viewport
AreaScrolled ==
  /\ Len(list) > 1
  /\ thumbs_area.y < 0
  /\ thumbs_area.height > thumb_size

---------------------------------------------------------------------------
(* The offset kept in the configuration *)

\* the table after the collection became c and the reload callback ran,
\* with no image named as changed and none proposed as the next one
Reloaded(c) ==
  _dt_collection_changed_callback(ResetCaches([World EXCEPT !.collection = c]),
                                  TRUE, <<>>, -1, FALSE)

\* C20: an operation that changes table->offset leaves the same offset in
\* plugins/lighttable/recentcollect/pos0; here the operation is the reload
\* of the collection.
ReloadStoresOffset ==
  mode # "NONE" =>
    \A c \in Collections :
      Reloaded(c).offset # offset => Reloaded(c).conf_pos0 = Reloaded(c).offset

---------------------------------------------------------------------------
(* The offset after a reload of the collection *)

\* the table with the collection c, before the callback runs
Collected(c) == ResetCaches([World EXCEPT !.collection = c])

\* the table after the collection became c and the reload callback ran with
\* the arguments a
ReloadedWith(c, a) ==
  _dt_collection_changed_callback(Collected(c), TRUE, a[1], a[2], a[3])

\* the first row of the grid line that holds row
RowStart(row) ==
  IF mode = "FILEMANAGER" /\ thumbs_per_row > 0
  THEN CDiv(row - 1, thumbs_per_row) * thumbs_per_row + 1
  ELSE row

\* the image at the offset keeps a row in c, another one than before, and
\* the reload does not name it as changed or proposes no next image
OffsetImageMoved(c, a) ==
  /\ mode \in {"FILEMANAGER", "FILMSTRIP"}
  /\ list # <<>>
  /\ offset_imgid > 0
  /\ _thumb_get_rowid(Collected(c), offset_imgid) > 0
  /\ _thumb_get_rowid(Collected(c), offset_imgid) # _thumb_get_rowid(World, offset_imgid)
  /\ ((\A i \in 1..Len(a[1]) : a[1][i] # offset_imgid) \/ a[2] <= 0)

\* C21: after a reload in which the image at the offset is still in the
\* collection on another row, the offset is the new row of that image (in the
\* grid the first row of its line) and the image is in the list.  Stated for
\* the filmstrip, in a table large enough to be laid out.
ReloadFollowsImage ==
  (mode = "FILMSTRIP" /\ allocation[1] > MinViewSize /\ allocation[2] > MinViewSize) =>
    \A c \in Collections, a \in ReloadArgs :
      OffsetImageMoved(c, a) =>
        /\ ReloadedWith(c, a).offset = RowStart(_thumb_get_rowid(Collected(c), offset_imgid))
        /\ \E i \in 1..Len(ReloadedWith(c, a).list) :
             ReloadedWith(c, a).list[i].imgid = offset_imgid

\* the image at the offset has no row in c, and the reload does not name it
\* as changed or proposes no next image
OffsetImageGone(c, a) ==
  /\ mode \in {"FILEMANAGER", "FILMSTRIP"}
  /\ offset_imgid > 0
  /\ _thumb_get_rowid(Collected(c), offset_imgid) <= 0
  /\ ((\A i \in 1..Len(a[1]) : a[1][i] # offset_imgid) \/ a[2] <= 0)

\* the places of the list after (later) or before the image at the offset
\* whose image has a row in c
LiveNeighbours(c, later) ==
  {i \in 1..Len(list) :
     /\ _thumb_get_rowid(Collected(c), list[i].imgid) > 0
     /\ \E k \in 1..Len(list) :
          /\ list[k].imgid = offset_imgid
          /\ IF later THEN i > k ELSE i < k}

\* the image the offset goes to when the image at the offset is gone: the
\* nearest later one of the list, else the nearest earlier one, else none
NearestLive(c) ==
  IF LiveNeighbours(c, TRUE) # {}
  THEN list[CHOOSE i \in LiveNeighbours(c, TRUE) :
              \A j \in LiveNeighbours(c, TRUE) : i <= j].imgid
  ELSE IF LiveNeighbours(c, FALSE) # {}
  THEN list[CHOOSE i \in LiveNeighbours(c, FALSE) :
              \A j \in LiveNeighbours(c, FALSE) : i >= j].imgid
  ELSE -1

RedrawStaysPut ==
  /\ allocation[1] > MinViewSize
  /\ allocation[2] > MinViewSize
  /\ (mode = "FILMSTRIP" \/ selection = <<>>)

---------------------------------------------------------------------------
(* The first row of the grid *)

\* the offset is the first row of a line, and the first thumb is the first
\* of its line, at the left of the grid
TopRowWhole(w) ==
  w.list # <<>> =>
    /\ w.thumbs_per_row > 0
    /\ CMod(w.offset - 1, w.thumbs_per_row) = 0
    /\ CMod(w.list[1].rowid - 1, w.thumbs_per_row) = 0
    /\ w.list[1].x = w.center_offset

\* the clamped moves of one row up or down, as _event_scroll asks for them
RowSteps ==
  IF list = <<>> THEN {} ELSE {thumb_size, -thumb_size, -thumb_size - thumbs_area.y}

\* C23: in the file manager, after every full redraw and every clamped move
\* that is done, the offset is the first row of a line and the first thumb
\* is in the left-most column.
GridTopRowWhole ==
  mode = "FILEMANAGER" =>
    /\ TopRowWhole(dt_thumbtable_full_redraw(World, TRUE, MaxDepth))
    /\ \A y \in RowSteps :
         _move(World, 0, y, TRUE, MaxDepth).ret
           => TopRowWhole(_move(World, 0, y, TRUE, MaxDepth).w)

---------------------------------------------------------------------------
(* The moves refused at the first row *)

\* a clamped move of y is refused by the first row: the first image of the
\* collection is wholly shown and the move goes up
AtTop(y) == list[1].rowid = 1 /\ y > 0 /\ list[1].y >= 0

\* the clamped move of y in the file manager
Clamped(y) == _move(World, 0, y, TRUE, MaxDepth)

\* C24: in the file manager the moves up refused at the first row while the
\* first thumb is not at x = 0 are counted in realign_top_try: the first two
\* fail, the third puts the counter back to 0, does a full redraw and
\* returns TRUE; a clamped move that passes the test of the first row puts
\* the counter to 0; the counter stays within 0..2.
RealignAfterTwoTries ==
  /\ realign_top_try \in 0..2
  /\ (mode = "FILEMANAGER" /\ list # <<>>) =>
       \A y \in RowSteps :
         /\ (AtTop(y) /\ list[1].x # 0 /\ realign_top_try < 2) =>
              /\ ~Clamped(y).ret
              /\ Clamped(y).w = [World EXCEPT !.realign_top_try = @ + 1]
         /\ (AtTop(y) /\ list[1].x # 0 /\ realign_top_try = 2) =>
              /\ Clamped(y).ret
              /\ Clamped(y).w.realign_top_try = 0
              /\ Clamped(y).w = dt_thumbtable_full_redraw(
                                  [World EXCEPT !.realign_top_try = 0], TRUE, MaxDepth - 1)
         /\ (AtTop(y) /\ list[1].x = 0) =>
              /\ ~Clamped(y).ret
              /\ Clamped(y).w = World
         /\ (~AtTop(y) /\ y # 0) => Clamped(y).w.realign_top_try = 0

\* two moves up were refused at the first row of a centred grid
TwoTriesSeen ==
  /\ mode = "FILEMANAGER"
  /\ list # <<>>
  /\ realign_top_try = 2
  /\ AtTop(thumb_size)
  /\ list[1].x # 0
  /\ Clamped(thumb_size).ret

---------------------------------------------------------------------------
(* The scroll wheel *)

\* the table after a turn of the wheel
Scrolled(delta) == _event_scroll(World, delta).w

\* the least y of the thumbs of w
TopY(w) == CHOOSE y \in {w.list[i].y : i \in 1..Len(w.list)} :
             \A i \in 1..Len(w.list) : y <= w.list[i].y

\* C25: a turn of the wheel on a table with thumbs moves it by one step or
\* not at all: in the file manager the offset changes by thumbs_per_row, by
\* -thumbs_per_row or by 0 and the first row then starts at y = 0; in the
\* filmstrip the offset changes by 1, by -1 or by 0.  Stated for the tables
\* whose view is higher than a thumb.
ScrollIsOneStep ==
  (list # <<>> /\ (mode = "FILMSTRIP" \/ view_height > thumb_size)) =>
    \A delta \in {-1, 1} :
      /\ mode = "FILEMANAGER" =>
           /\ Scrolled(delta).offset - offset \in {thumbs_per_row, -thumbs_per_row, 0}
           /\ Scrolled(delta).list # <<>>
           /\ TopY(Scrolled(delta)) = 0
      /\ mode = "FILMSTRIP" =>
           Scrolled(delta).offset - offset \in {1, -1, 0}

---------------------------------------------------------------------------
(* Bringing an image into view *)

\* the images asked for: those of the collection, one that can be outside
\* of it, and no image
Targets == 0..NImg

\* dt_thumbtable_ensure_imgid_visibility on the table as it is
Ensured(imgid) == dt_thumbtable_ensure_imgid_visibility(World, imgid, MaxDepth)

\* C26: in the file manager dt_thumbtable_ensure_imgid_visibility returns,
\* whatever the image asked for: the moves it asks for one after the other
\* come to an end, and it returns FALSE when the list is empty.
EnsureVisibleEnds ==
  mode = "FILEMANAGER" =>
    \A imgid \in Targets :
      /\ ~Ensured(imgid).w.diverged
      /\ list = <<>> => ~Ensured(imgid).ret

\* an image two rows or more below the window is asked for and comes into
\* view after several moves
EnsureVisibleMoved ==
  /\ mode = "FILEMANAGER"
  /\ list # <<>>
  /\ \E imgid \in Targets :
       /\ _thumb_get_rowid(World, imgid) > Last(list).rowid + thumbs_per_row
       /\ Ensured(imgid).ret
       /\ Ensured(imgid).w.list # list

\* the image has a thumb in the list of w
InList(w, imgid) == \E i \in 1..Len(w.list) : w.list[i].imgid = imgid

---------------------------------------------------------------------------
(* The sizes of the filmstrip *)

\* the sizes _compute_sizes gives when forced
Sized == _compute_sizes(World, TRUE).w

\* the filmstrip has a widget large enough to be laid out
StripLaidOut ==
  mode = "FILMSTRIP" /\ allocation[1] > MinViewSize /\ allocation[2] > MinViewSize

\* C28 as stated: in the filmstrip thumb_size is the height of the view and
\* rows is the width over thumb_size rounded up, made even.
StripRowsEven ==
  StripLaidOut =>
    /\ Sized.thumb_size = allocation[2]
    /\ Sized.rows * Sized.thumb_size >= allocation[1]
    /\ CMod(Sized.rows, 2) = 0

\* C28, amended: in the filmstrip thumb_size is the height of the view and
\* rows is the least odd number greater than the width over thumb_size
\* rounded down.
StripRowsOdd ==
  StripLaidOut =>
    /\ Sized.thumb_size = allocation[2]
    /\ CMod(Sized.rows, 2) = 1
    /\ Sized.rows * Sized.thumb_size > allocation[1]
    /\ (Sized.rows - 2) * Sized.thumb_size <= allocation[1]

\* the filmstrip was given a width of four thumbs and keeps five of them
StripRowsSeen ==
  /\ StripLaidOut
  /\ view_width = allocation[1]
  /\ view_width = 4 * thumb_size
  /\ rows = 5
  /\ Sized.rows = rows

---------------------------------------------------------------------------
(* The hover and the borders of its group *)

\* the grouped images of the list that the pointer can go to
HoverableGrouped ==
  {list[i].imgid : i \in {k \in 1..Len(list) : list[k].is_grouped}}
    \ {mouse_over_id}

\* the thumb at place i of the list l has a neighbour of its group before
\* it (side = -1) or after it (side = 1)
GroupNeighbour(l, i, side) ==
  /\ i + side \in 1..Len(l)
  /\ l[i + side].groupid = l[i].groupid

\* the thumbs of the group of image h in the list l
GroupOfHover(l, h) ==
  {i \in 1..Len(l) : \E k \in 1..Len(l) : l[k].imgid = h /\ l[k].groupid = l[i].groupid}

HoverTargets == ((1..NImg) \cup {-1}) \ {mouse_over_id}

\* C30: after the hover changed to h, mouse_over is set on the thumb of h
\* and on no other, and a thumb has a border only if the thumb of h is
\* grouped and of the same group: the borders of the last hover are gone.
HoverMarksOneThumb ==
  \A h \in HoverTargets :
    \A i \in 1..Len(Hovered(h).list) :
      LET l == Hovered(h).list IN
      /\ l[i].mouse_over <=> l[i].imgid = h
      /\ l[i].group_borders # {} =>
           \E k \in 1..Len(l) :
             l[k].imgid = h /\ l[k].is_grouped /\ l[k].groupid = l[i].groupid

\* the thumbs of a hovered group have borders and the pointer goes to an
\* image that is alone: the borders go
HoverLeavesGroup ==
  /\ \E i \in 1..Len(list) : list[i].group_borders # {}
  /\ \E h \in HoverTargets :
       /\ \E k \in 1..Len(list) : list[k].imgid = h /\ ~list[k].is_grouped
       /\ \A i \in 1..Len(list) : Hovered(h).list[i].group_borders = {}

---------------------------------------------------------------------------
(* The collection changes otherwise than by a reload *)

\* the table after the collection became c and the callback ran with a
\* query_change that is not a reload
ResetTo(c) ==
  _dt_collection_changed_callback(Collected(c), FALSE, <<>>, -1, FALSE)

\* C31: a change of the collection that is not a reload puts the table at
\* the beginning: the offset is 1, offset_imgid is the image of row 1 (-1 in
\* an empty collection), pos0 is 1 and the list starts at row 1.
ResetGoesToStart ==
  mode # "NONE" =>
    \A c \in Collections :
      /\ ResetTo(c).offset = 1
      /\ ResetTo(c).offset_imgid = _thumb_get_imgid(Collected(c), 1)
      /\ ResetTo(c).conf_pos0 = 1
      /\ c = <<>> => ResetTo(c).list = <<>>
      /\ c # <<>> =>
           /\ ResetTo(c).list # <<>>
           /\ ResetTo(c).list[1].rowid = 1
           /\ ResetTo(c).list[1].imgid = c[1]

\* C31, amended: the same when the table is large enough to be laid out
\* and the full redraw does not scroll to a selected image.
ResetGoesToStartLaidOut ==
  RedrawStaysPut => ResetGoesToStart

\* a table scrolled away from the first row is put back to it
ResetFromBelow ==
  /\ RedrawStaysPut
  /\ mode # "NONE"
  /\ list # <<>>
  /\ offset > 1
  /\ conf_pos0 > 1
  /\ list[1].rowid > 1
  /\ ResetTo(collection).list[1].rowid = 1

(* The images to act on: when the cache is rebuilt *)

\* the list made anew from the selection and the active images
Recomputed(only_visible, ordered) ==
  ActiveInserted(World, dt_selection_get_list(World, only_visible, ordered),
                 only_visible)

\* C32: _cache_update rebuilds the cache when force is TRUE, when the cache
\* was reset since it was built, or when the ordered flag asked for is not the
\* one of the cache; dt_act_on_get_images then returns the list made anew from
\* the selection and the active images, and the cache holds it.
ForcedOrStaleIsRebuilt ==
  \A only_visible, force, ordered \in BOOLEAN :
    LET cache == CacheOf(World, only_visible)
        g == dt_act_on_get_images(World, only_visible, force, ordered)
    IN (force \/ ~cache.ok \/ cache.ordered # ordered) =>
         /\ _cache_update(World, only_visible, force, ordered).ret
         /\ g.ret = Recomputed(only_visible, ordered)
         /\ CacheOf(g.w, only_visible).ok
         /\ CacheOf(g.w, only_visible).ordered = ordered
         /\ CacheOf(g.w, only_visible).images = g.ret

\* a cache that is still valid for the hover and the active images, built
\* without the order, while the ordered list is another one
OtherOrderAsked ==
  /\ _test_cache(World, act_on_cache_all)
  /\ ~act_on_cache_all.ordered
  /\ selection # <<>>
  /\ act_on_cache_all.images # Recomputed(FALSE, TRUE)
  /\ dt_act_on_get_images(World, FALSE, FALSE, TRUE).ret # act_on_cache_all.images

(* The key moves come to an end *)

\* C33: dt_thumbtable_key_move comes to an end for every key in every
\* reachable state, before the first computation of the sizes, with a hovered
\* or offset image that has no row and with an empty collection: the loops of
\* PAGEUP and PAGEDOWN are left.
KeyMoveEnds ==
  mode = "FILEMANAGER" =>
    \A move \in Moves :
      /\ KeyMoveTarget(World, move).ends
      /\ ~dt_thumbtable_key_move(World, move).w.diverged

(* The offset is a row *)

\* C34: after every operation (full redraw, move, scroll, scrollbar change,
\* set_offset by row or by image, zoom change, key move, collection change in
\* either mode) the offset is at least 1, also after a reload in FILMSTRIP
\* whose first selected image is not in the collection.
OffsetPositive ==
  /\ offset >= 1
  /\ \A r \in -1..NImg, redraw \in BOOLEAN :
       /\ dt_thumbtable_set_offset(World, r, redraw).w.offset >= 1
       /\ dt_thumbtable_set_offset_image(World, r, redraw).w.offset >= 1
  /\ \A z \in 1..MaxZoom :
       mode # "NONE" => dt_thumbtable_zoom_changed(World, zoom, z).offset >= 1
  /\ \A c \in Collections, a \in ReloadArgs :
       mode # "NONE" => ReloadedWith(c, a).offset >= 1

\* in the filmstrip the selected image, which is not the offset image, leaves
\* the collection: the reload looks for its row and finds none
StripSelectionGone ==
  /\ mode = "FILMSTRIP"
  /\ selection = <<3>>
  /\ offset_imgid # 3
  /\ offset > 1
  /\ list # <<>>
  /\ _thumb_get_rowid(Collected(Without(AllImages, 3)), 3) = -1
  /\ Reloaded(Without(AllImages, 3)).offset >= 1

(* The offset and the first thumb of the grid *)

\* C35: in FILEMANAGER, after any sequence of full redraws, clamped moves,
\* scrolls and scrollbar changes that leaves the list non-empty, the offset is
\* the rowid of the first thumb of the list, also when the top row is shown
\* in part.
GridOffsetIsFirst ==
  (mode = "FILEMANAGER" /\ list # <<>>) => offset = list[1].rowid

(* The offset and the centre of the filmstrip *)

\* the x of the slot in the middle of the filmstrip
CentreSlot(w) ==
  CDiv(w.view_width - w.rows * w.thumb_size, 2) + CDiv(w.rows, 2) * w.thumb_size

ActiveCases == ActiveLists \cup {<<3>>, <<NImg + 1, 3>>}

\* the table once a view has made l its active images
WithActive(l) == [World EXCEPT !.active_images = l]

\* no id twice in l
NoTwice(l) == \A i, j \in 1..Len(l) : l[i] = l[j] => i = j

\* C37: whatever the cache, the list dt_act_on_get_images returns holds
\* every active image, in the collection or not, known or not, and no id
\* twice (the selection holds none twice).
ActiveAreActedOn ==
  \A l \in ActiveCases, only_visible, force, ordered \in BOOLEAN :
    LET r == dt_act_on_get_images(WithActive(l), only_visible, force, ordered).ret
    IN /\ Range(l) \subseteq Range(r)
       /\ NoTwice(r)

(* The images to act on: their number *)

\* C38: a valid cache has images_nb equal to the length of its list, and
\* dt_act_on_get_images_nb(only_visible, force = FALSE) returns the length of
\* the list dt_act_on_get_images(only_visible, force = FALSE, ordered) returns
\* in the same state.
CountIsLength ==
  \A only_visible \in BOOLEAN :
    /\ CacheOf(World, only_visible).ok
         => CacheOf(World, only_visible).images_nb
              = Len(CacheOf(World, only_visible).images)
    /\ \A ordered \in BOOLEAN :
         dt_act_on_get_images_nb(World, only_visible, FALSE).ret
           = Len(dt_act_on_get_images(World, only_visible, FALSE, ordered).ret)

(* set_offset calls that are refused *)

\* the ids that are asked for: the images, and two ids that are no image
AskedIds == 0..(NImg + 1)

\* the offset, the offset image, the stored offset and the list of w are
\* those of the table
LayoutKept(w) ==
  /\ w.offset = offset
  /\ w.offset_imgid = offset_imgid
  /\ w.conf_pos0 = conf_pos0
  /\ w.list = list

\* C39: dt_thumbtable_set_offset_image for an image that has no row in the
\* collection returns FALSE and leaves the offset, the offset image, the
\* stored offset and the list as they were; so does dt_thumbtable_set_offset
\* for a row below 1 or for the row of the offset.
RefusedOffsetKeepsLayout ==
  \A redraw \in BOOLEAN :
    /\ \A imgid \in AskedIds :
         _thumb_get_rowid(World, imgid) < 1 =>
           /\ ~dt_thumbtable_set_offset_image(World, imgid, redraw).ret
           /\ LayoutKept(dt_thumbtable_set_offset_image(World, imgid, redraw).w)
    /\ \A row \in {-1, 0, offset} :
         /\ ~dt_thumbtable_set_offset(World, row, redraw).ret
         /\ LayoutKept(dt_thumbtable_set_offset(World, row, redraw).w)

(* The guard of the scrollbar *)

\* C40: table->code_scrolling is FALSE at the end of
\* _thumbtable_update_scrollbars and of every operation that calls it,
\* whatever the visibility of the scrollbar and the numbers of rows, so that
\* no later change of the scrollbar by the user is ignored.
GuardReleased ==
  /\ ~code_scrolling
  /\ thumbs_per_row > 0 => ~_thumbtable_update_scrollbars(World).code_scrolling

NoDivergence == ~hung

=============================================================================
